---- MODULE Spec2Model ----
(***************************************************************************)
(* Edge authenticator: the request orchestrator (requestHandler.js) and    *)
(* the three token-bucket limiters it can select                           *)
(*   - fully-atomic      (rateLimiterAtomicDynamoDb, kept in               *)
(*                        src/src/responseHandler.js lines 16-252)         *)
(*   - hybrid V1         (rateLimiterHybridMemoryDynamo.js)                *)
(*   - hybrid V2         (rateLimiterHybridMemoryDynamoV2.js)              *)
(* over one shared counter store (DynamoDB table keyed by clientId).       *)
(*                                                                         *)
(* Numbers.  The code computes token counts as IEEE doubles.  The model    *)
(* keeps every token count exactly, as an integer number of units of       *)
(* 1/TokScale token, TokScale = defaultInterval * 1000; every              *)
(* refillInterval of the model divides defaultInterval, so that            *)
(* refillRate * timeDelta / (refillInterval * 1000) is a whole number of   *)
(* units.  Times are milliseconds, as Date.now().                          *)
(*                                                                         *)
(* Steps.  A JavaScript async function runs without interruption between   *)
(* two awaits.  Each action below is one such run: it starts when the      *)
(* awaited call (verifier, GetItem, UpdateItem) answers, reads the store   *)
(* or applies the write at that moment, and runs the code up to the next   *)
(* await or to the callback.                                               *)
(***************************************************************************)
EXTENDS Integers, Sequences, FiniteSets, TLC

\* ------------------------------------------------------------------ bounds
\* requests per behaviour: two processes (Spec, SpecAtomicPar); one process,
\* one request at a time (SpecAtomicSeq, SpecSeq); the priming request and
\* the burst (SpecV2Burst); the orchestrator (SpecOrch)
MaxReqs == 2
MaxSeqReqs == 3
MaxBurst == 4
MaxOrchReqs == 2
MaxRawReqs == 1
\* clock advances of TickUnit ms per behaviour: Spec, SpecAtomicPar and
\* SpecOrch; the sequential specifications
MaxTicks == 1
MaxSeqTicks == 2

\* --------------------------------------------------------- program constants
hardMaxTokens == 2500
hardMaxRefillRate == 2500
defaultInterval == 60
\* hybrid limiters (V1, V2)
defaultRefillRate == 300
defaultMaxTokens == 500
\* fully-atomic limiter
atomicDefaultRefillRate == 750
atomicDefaultMaxTokens == 750
\* cache staleness of the hybrid limiters, ms
StaleMs == 1000
defaultMaxRetries == 3
defaultBaseBackoffMs == 50

TokScale == defaultInterval * 1000

\* Number(undefined), Number("abc"): a missing or non-numeric attribute.
\* Also stands for an argument left undefined.
NaN == 0 - 1000000

Clients == {"c1", "c2"}
NoClient == "none"
Procs == {"p1", "p2"}

AtomicKey == "fully-atomic-dynamo"
V1Key == "reduced-atomicity-hybrid-v1"
V2Key == "reduced-atomicity-hybrid-v2"
LimiterKeys == {AtomicKey, V1Key, V2Key}

\* ----------------------------------------------------------------- numbers
Max(a, b) == IF a >= b THEN a ELSE b
Min(a, b) == IF a <= b THEN a ELSE b

\* Math.floor of a count of units, in whole tokens
FloorTok(u) == u \div TokScale

\* Math.ceil(a / b) for b > 0
CeilDiv(a, b) == 0 - ((0 - a) \div b)

\* refillRate * timeDelta / (refillInterval * 1000), in units
RefillUnits(refillRate, timeDelta, refillInterval) ==
  refillRate * timeDelta * (defaultInterval \div refillInterval)

\* a sanitizeNumber that only fills in the default
sanitizeNumberNoClamp(value, defaultValue, minValue, maxValue) ==
  IF value = NaN THEN defaultValue ELSE value

sanitizeNumber(value, defaultValue, minValue, maxValue) ==
  IF value = NaN THEN defaultValue
  ELSE LET lo == IF minValue # NaN /\ value < minValue THEN minValue ELSE value
       IN IF maxValue # NaN /\ lo > maxValue THEN maxValue ELSE lo

\* a raw store item: every attribute a number or NaN (absent / not numeric);
\* tokens in units
NoItem ==
  [tokens |-> NaN, lastRefill |-> NaN, refillRate |-> NaN,
   refillInterval |-> NaN, maxTokens |-> NaN]

DefaultRate(lim) ==
  IF lim = AtomicKey THEN atomicDefaultRefillRate ELSE defaultRefillRate
DefaultMax(lim) ==
  IF lim = AtomicKey THEN atomicDefaultMaxTokens ELSE defaultMaxTokens

\* the refill amount sanitizeItem and the hot path add: floored to whole
\* tokens in the fully-atomic limiter and in V1, exact in V2
RefillAmount(lim, refillRate, timeDelta, refillInterval) ==
  LET u == RefillUnits(refillRate, timeDelta, refillInterval)
  IN IF lim = V2Key THEN u ELSE FloorTok(u) * TokScale

\* sanitizeItem(item) of limiter lim, with Date.now() = t
sanitizeItem(lim, item, t) ==
  LET maxTokens == sanitizeNumber(item.maxTokens, DefaultMax(lim), 1, hardMaxTokens)
      refillRate == sanitizeNumber(item.refillRate, DefaultRate(lim), 1, hardMaxRefillRate)
      refillInterval == sanitizeNumber(item.refillInterval, defaultInterval, 1, NaN)
      lastRefill == sanitizeNumber(item.lastRefill, t, 0, t)
      tokens == sanitizeNumber(item.tokens, maxTokens * TokScale, 0, maxTokens * TokScale)
      timeDelta == Max(0, t - lastRefill)
      refillAmount == RefillAmount(lim, refillRate, timeDelta, refillInterval)
      cappedTokens == Min(tokens + refillAmount, maxTokens * TokScale)
  IN [tokens |-> tokens, lastRefill |-> lastRefill, refillRate |-> refillRate,
      refillInterval |-> refillInterval, maxTokens |-> maxTokens,
      currentTime |-> t, cappedTokens |-> cappedTokens,
      cappedTokensFloored |-> FloorTok(cappedTokens)]

\* a reset time rounded down to whole seconds
RateLimitResetFloored(remaining, maxTokens, refillInterval, refillRate) ==
  IF remaining < maxTokens
  THEN ((maxTokens - remaining) * refillInterval) \div refillRate
  ELSE 0

\* rateLimitReset for a reported remaining count
RateLimitReset(remaining, maxTokens, refillInterval, refillRate) ==
  IF remaining < maxTokens
  THEN CeilDiv((maxTokens - remaining) * refillInterval, refillRate)
  ELSE 0

\* allowed: cappedTokensFloored >= 1
IsAllowed(cappedTokensFloored) == cappedTokensFloored >= 1


\* ---------------------------------------------------- records of the state
\* a memoryCache entry (no entry: present = FALSE)
NoEntry ==
  [present |-> FALSE, tokens |-> 0, lastRefill |-> 0, refillRate |-> 0,
   refillInterval |-> 0, maxTokens |-> 0, lastAccess |-> 0, loaded |-> 0]

\* a cache entry that takes a full bucket in place of the item's tokens
CacheEntryFull(s, lastAccess) ==
  [present |-> TRUE, tokens |-> s.maxTokens * TokScale, lastRefill |-> s.lastRefill,
   refillRate |-> s.refillRate, refillInterval |-> s.refillInterval,
   maxTokens |-> s.maxTokens, lastAccess |-> lastAccess, loaded |-> 0]

\* cachedItem = { ...sanitized, lastAccess }
CacheEntry(s, lastAccess) ==
  [present |-> TRUE, tokens |-> s.tokens, lastRefill |-> s.lastRefill,
   refillRate |-> s.refillRate, refillInterval |-> s.refillInterval,
   maxTokens |-> s.maxTokens, lastAccess |-> lastAccess, loaded |-> 0]

\* rateLimitResult (has = FALSE: the limiter has returned nothing)
NoDec ==
  [has |-> FALSE, allowed |-> FALSE, rateLimitRemaining |-> 0,
   rateLimitLimit |-> 0, rateLimitReset |-> 0, collision |-> FALSE]

\* updateParams of an UpdateItemCommand.  kind is the ConditionExpression:
\*  "eq"   attribute_not_exists(lastRefill) OR lastRefill = :oldLastRefill
\*  "ge"   (no tokens OR tokens >= :expectedTokens) AND
\*         (no lastRefill OR lastRefill <= :expectedLastRefill)
\*  "same" (no tokens OR tokens = :oldTokens) AND
\*         (no lastRefill OR lastRefill = :expectedLastRefill)
\*  "any"  no condition
NoUpd ==
  [kind |-> "none", newTokens |-> 0, currentTime |-> 0, refillRate |-> 0,
   refillInterval |-> 0, maxTokens |-> 0, expectedTokens |-> 0,
   expectedLastRefill |-> 0]

\* the bucket and the clock reading a decision was computed from
NoBasis ==
  [tokens |-> 0, lastRefill |-> 0, refillRate |-> 0, refillInterval |-> 0,
   maxTokens |-> 0, now |-> 0, fromCache |-> FALSE]

Basis(b, t, fromCache) ==
  [tokens |-> b.tokens, lastRefill |-> b.lastRefill, refillRate |-> b.refillRate,
   refillInterval |-> b.refillInterval, maxTokens |-> b.maxTokens, now |-> t,
   fromCache |-> fromCache]

\* what the handler passed to callback(null, ...): the forwarded request or
\* a response; rl: the x-ratelimit-* headers are set from the decision
NoOut ==
  [kind |-> "none", clientId |-> NoClient, rl |-> FALSE, limit |-> 0,
   remaining |-> 0, reset |-> 0, collision |-> FALSE]

GoodPath == <<"/uk", "/api", "/v2", "/headings">>
ExcludedPath == <<"/uk", "/api", "/v2", "/", "green_lanes">>

\* verifier.verify(token): it throws, or resolves to the claims
Rejected == [ok |-> FALSE, client_id |-> NoClient, scope |-> << >>]
Claims(client_id, scope) == [ok |-> TRUE, client_id |-> client_id, scope |-> scope]


\* -------------------------------------------------------------------- state
VARIABLES
  now,      \* Date.now(), ms
  store,    \* the table: clientId -> raw item (NoItem: no item)
  cacheV1,  \* memoryCache of rateLimiterHybridMemoryDynamo, per process
  cacheV2,  \* memoryCache of rateLimiterHybridMemoryDynamoV2, per process
  req,      \* the handler invocations
  env       \* configuration and what the callers and the store may do (fixed)

vars == <<now, store, cacheV1, cacheV2, req, env>>

\* ------------------------------------------------------- scopes and paths
\* A string is a sequence of pieces; includes and startsWith compare pieces,
\* and " " is a piece of its own.
NoConfig == [known |-> FALSE, excludedPaths |-> << >>, allowedPaths |-> << >>]

\* config of one scope; a config without excludedPaths has none
ScopeConfig(excludedPaths, allowedPaths) ==
  [known |-> TRUE, excludedPaths |-> excludedPaths, allowedPaths |-> allowedPaths]

\* the SCOPES map: scope name -> config
IndexScopes ==
  [scope \in {<<"tariff/read">>} |->
     ScopeConfig(<< <<"green_lanes">>, <<"user">> >>,
                 << <<"/uk", "/api">>, <<"/xi", "/api">>, <<"/api">> >>)]

\* SCOPES[scope] of the configuration in force
SCOPES(scope) ==
  IF scope \in DOMAIN env.scopes THEN env.scopes[scope] ELSE NoConfig

Includes(path, piece) ==
  \E i \in 1..Len(path) :
    /\ i + Len(piece) - 1 <= Len(path)
    /\ SubSeq(path, i, i + Len(piece) - 1) = piece

StartsWith(path, prefix) ==
  /\ Len(prefix) <= Len(path)
  /\ SubSeq(path, 1, Len(prefix)) = prefix

\* a loop body of authorised that never looks at excludedPaths
ScopeAllowsNoExclusion(scope, path) ==
  LET config == SCOPES(scope)
  IN /\ config.known
     /\ \E i \in 1..Len(config.allowedPaths) : StartsWith(path, config.allowedPaths[i])

\* the loop body of authorised for one scope: it reaches return true
ScopeAllows(scope, path) ==
  LET config == SCOPES(scope)
  IN /\ config.known
     /\ ~ \E i \in 1..Len(config.excludedPaths) : Includes(path, config.excludedPaths[i])
     /\ \E i \in 1..Len(config.allowedPaths) : StartsWith(path, config.allowedPaths[i])

RECURSIVE SplitFrom(_, _, _)
\* s.split(" ") from piece i on, cur being the element collected so far
SplitFrom(s, i, cur) ==
  IF i > Len(s) THEN <<cur>>
  ELSE IF s[i] = " " THEN <<cur>> \o SplitFrom(s, i + 1, << >>)
  ELSE SplitFrom(s, i + 1, Append(cur, s[i]))

RECURSIVE authorisedFrom(_, _, _)
\* for (const scope of scopeList) from element i on: true at the first scope
\* that allows the path, false when the list is exhausted
authorisedFrom(scopeList, i, path) ==
  IF i > Len(scopeList) THEN FALSE
  ELSE IF ScopeAllows(scopeList[i], path) THEN TRUE
  ELSE authorisedFrom(scopeList, i + 1, path)

\* scopes: payload.scope, << >> when it is absent or empty (both falsy)
authorised(scopes, path) ==
  LET scopeList == IF scopes = << >> THEN << >> ELSE SplitFrom(scopes, 1, << >>)
  IN authorisedFrom(scopeList, 1, path)


MaxAllReqs == Max(Max(MaxReqs, MaxOrchReqs), Max(MaxSeqReqs, MaxBurst))
ReqIds == 1..MaxAllReqs

\* got: what the hot path GetItem answered ("ok", "error": it rejected with a
\* transport error or a timeout);
\* wrote: what the awaited UpdateItem answered ("ok", "ccf": the condition
\* failed, "error": it rejected with a transport error or a timeout);
\* header: the value of x-rate-limiter; inCollision: the request arrived
\* with a header x-ratelimit-collision: true of its own;
\* pc: "idle" not yet invoked; "verify" awaiting verifier.verify;
\* "get" awaiting the hot path GetItem; "upd" awaiting the UpdateItem;
\* "refresh" awaiting the GetItem after a collision (V2); "done" callback called
\* retries: the retries left to the running syncToDynamo (V2)
\* inClientId: the value of the x-client-id header the request arrived with
\* (NoClient: it had none);
\* via: who awaits applyRateLimit, the "handler" or applyRateLimitWithRetry
\* ("retry"); maxRetries: the argument of applyRateLimitWithRetry; due: the
\* time its backoff timer is set for (pc "backoff")
IdleReq ==
  [pc |-> "idle", proc |-> "p1", header |-> "absent", inCollision |-> FALSE,
   lim |-> V2Key, auth |-> "none", path |-> << >>,
   payload |-> Rejected, client |-> NoClient, t |-> 0, dec |-> NoDec, basis |-> NoBasis, u |-> NoUpd,
   wpend |-> FALSE, out |-> NoOut, got |-> "none", wrote |-> "none",
   retries |-> 0, nverify |-> 0, ncalls |-> 0, ngets |-> 0,
   nupds |-> 0, ncallbacks |-> 0, threw |-> FALSE,
   via |-> "handler", maxRetries |-> 0, due |-> 0, inClientId |-> NoClient]

\* ------------------------------------------------------------ limiter math
\* min(tokens + refill, maxTokens) of bucket b at time t, in units
Capped(lim, b, t) ==
  Min(b.tokens + RefillAmount(lim, b.refillRate, Max(0, t - b.lastRefill), b.refillInterval),
      b.maxTokens * TokScale)

\* a limiter that grants without taking the token out of the bucket
NewTokensNotTaken(lim, capped) ==
  IF lim = V2Key THEN capped ELSE FloorTok(capped) * TokScale

\* newTokens after consuming: cappedTokensFloored - 1 (fully-atomic, V1),
\* cappedTokens - 1 (V2)
NewTokens(lim, capped) ==
  IF lim = V2Key THEN capped - TokScale ELSE (FloorTok(capped) - 1) * TokScale

\* rateLimitResult as built before any write
Decide(lim, b, capped) ==
  LET allowed == IsAllowed(FloorTok(capped))
      remaining == IF allowed THEN FloorTok(NewTokens(lim, capped)) ELSE FloorTok(capped)
  IN [has |-> TRUE, allowed |-> allowed, rateLimitRemaining |-> remaining,
      rateLimitLimit |-> b.maxTokens,
      rateLimitReset |-> RateLimitReset(remaining, b.maxTokens, b.refillInterval, b.refillRate),
      collision |-> FALSE]

\* ConditionExpression of update u against the stored item
CondHolds(u, item) ==
  CASE u.kind = "eq" ->
         item.lastRefill = NaN \/ item.lastRefill = u.expectedLastRefill
    [] u.kind = "ge" ->
         /\ item.tokens = NaN \/ item.tokens >= u.expectedTokens
         /\ item.lastRefill = NaN \/ item.lastRefill <= u.expectedLastRefill
    [] u.kind = "same" ->
         /\ item.tokens = NaN \/ item.tokens = u.expectedTokens
         /\ item.lastRefill = NaN \/ item.lastRefill = u.expectedLastRefill
    [] OTHER -> TRUE

\* UpdateExpression: SET the five attributes
Written(u) ==
  [tokens |-> u.newTokens, lastRefill |-> u.currentTime, refillRate |-> u.refillRate,
   refillInterval |-> u.refillInterval, maxTokens |-> u.maxTokens]

UpdateOf(kind, newTokens, currentTime, b, expectedTokens, expectedLastRefill) ==
  [kind |-> kind, newTokens |-> newTokens, currentTime |-> currentTime,
   refillRate |-> b.refillRate, refillInterval |-> b.refillInterval,
   maxTokens |-> b.maxTokens, expectedTokens |-> expectedTokens,
   expectedLastRefill |-> expectedLastRefill]

\* ------------------------------------------------------------- orchestrator
\* Names every object literal inherits from Object.prototype:
\* rateLimitOptions["constructor"] is the function Object,
\* rateLimitOptions["__proto__"] is the object Object.prototype; neither is
\* null or undefined, so ?? keeps them
InheritedKeys == {"constructor", "__proto__"}

\* applyRateLimit = rateLimitOptions[header || v2] ?? rateLimitOptions[v2]
\* when the flag is on, rateLimitOptions[v2] when it is off; the header
\* "absent" stands for no header and for the empty value
SelectLimiter(flag, header) ==
  IF flag /\ header \in LimiterKeys \cup InheritedKeys THEN header ELSE V2Key

\* a handler that forwards whatever the limiter decided
AnswerForwardAlways(allowed) == "forward"

\* the status the handler answers for a decision: 429 when not allowed
AnswerFor(allowed) == IF allowed THEN "forward" ELSE "429"

\* callback(null, out): the invocation is over.  Its record stays for the
\* properties to read when env.keep; otherwise only what its write still in
\* flight needs stays
Callback(q, out) ==
  IF env.keep
  THEN [q EXCEPT !.pc = "done", !.out = out, !.ncallbacks = @ + 1, !.t = 0,
                 !.u = IF q.wpend THEN q.u ELSE NoUpd]
  ELSE [IdleReq EXCEPT !.pc = "done", !.wpend = q.wpend,
                       !.u = IF q.wpend THEN q.u ELSE NoUpd,
                       !.client = IF q.wpend THEN q.client ELSE NoClient]

\* callback(null, { status: "401" | "403", ... })
Reject(q, status) == Callback(q, [NoOut EXCEPT !.kind = status])

\* a handler whose catch lets the request through
ThrownForwarded(q) ==
  Callback([q EXCEPT !.threw = TRUE, !.dec = NoDec, !.basis = NoBasis],
           [NoOut EXCEPT !.kind = "forward", !.clientId = q.client])

\* a handler without the catch: the invocation ends with no callback
ThrownUncaught(q) == [q EXCEPT !.pc = "done", !.threw = TRUE, !.dec = NoDec, !.basis = NoBasis]

\* the limiter threw: caught by the handler's try, answered 401
Thrown(q) == Reject([q EXCEPT !.threw = TRUE, !.dec = NoDec, !.basis = NoBasis], "401")

\* a handler that sets x-client-id only on a request that came without one
SetClientIdIfAbsent(q, value) == IF q.inClientId # NoClient THEN q.inClientId ELSE value

\* request.headers["x-client-id"] = [{ key: "X-Client-Id", value }]: the
\* header of the forwarded request, whatever the request arrived with
SetClientId(q, value) == value

\* the limiter returned dec: the rate limit headers, then 429 with these
\* headers, or the request forwarded with them assigned over its own
\* (Object.assign: a header of the request that rateLimitHeaders does not
\* hold stays).  out.collision: the output holds x-ratelimit-collision: true
Respond(q, dec) ==
  Callback([q EXCEPT !.dec = dec],
           [kind |-> AnswerFor(dec.allowed),
            clientId |-> IF dec.allowed THEN SetClientId(q, q.client) ELSE NoClient,
            rl |-> TRUE, limit |-> dec.rateLimitLimit,
            remaining |-> dec.rateLimitRemaining, reset |-> dec.rateLimitReset,
            collision |-> dec.collision \/ (AnswerFor(dec.allowed) = "forward" /\ q.inCollision)])

Stale(e, t) == ~e.present \/ t - e.lastAccess > StaleMs

\* memoryCache.set(clientId, cachedItem) after a GetItem.  loaded: the time
\* the store answered, kept for the properties when env.track
LoadedEntry(s, lastAccess) ==
  [CacheEntry(s, lastAccess) EXCEPT !.loaded = IF env.track THEN now ELSE 0]


\* "ok": the store answers with the item; "error": send rejects (transport
\* error, timeout, or a ResourceNotFoundException naming the table);
\* "notfound": there is no table and the answer is a
\* ResourceNotFoundException whose message does not name it
GetOutcomes ==
  IF ~env.table THEN {"notfound"}
  ELSE IF env.errs THEN {"ok", "error"} ELSE {"ok"}

\* item after the try/catch around the hot path Get: getResult.Item || {},
\* or {} on "notfound"
GotItem(outcome, c) == IF outcome = "notfound" THEN NoItem ELSE store[c]

\* "apply": the store evaluates the condition and answers;
\* "error": the command fails before the store applies it;
\* "timeout": the store evaluates and applies it, the answer is lost
\* without a table every UpdateItem is answered ResourceNotFoundException
UpdOutcomes ==
  IF ~env.table THEN {"error"}
  ELSE IF env.errs THEN {"apply", "error", "timeout"} ELSE {"apply"}

\* an Update the store acknowledges and drops
PutDropped(c, u) == store

\* an Update whose Key is not looked at: every item is written
PutEveryKey(c, u) == [k \in DOMAIN store |-> Written(u)]

Put(c, u) == [store EXCEPT ![c] = Written(u)]

\* what send(UpdateItemCommand) gives its caller
UpdAnswer(outcome, ok) ==
  IF outcome # "apply" THEN "error" ELSE IF ok THEN "ok" ELSE "ccf"

\* ------------------------------------------------ applyRateLimitWithRetry
\* applyRateLimitWithRetry returns result dec: what stays of the call is
\* its result and the attempts it made
RetryDone(q, dec) ==
  [IdleReq EXCEPT !.pc = "done", !.proc = q.proc, !.lim = q.lim, !.client = q.client,
                  !.via = q.via, !.maxRetries = q.maxRetries, !.dec = dec,
                  !.ncalls = q.ncalls, !.ngets = q.ngets, !.nupds = q.nupds]

\* a loop that makes one attempt more than maxRetries
RetryReturnedOneMore(q, dec) ==
  IF ~dec.collision THEN RetryDone(q, dec)
  ELSE IF q.ncalls - 1 < q.maxRetries
  THEN [q EXCEPT !.pc = "backoff", !.dec = dec,
                 !.due = now + (2 ^ (q.ncalls - 1)) * defaultBaseBackoffMs]
  ELSE RetryDone(q, dec)

\* applyRateLimit returned result dec to the loop (q.ncalls - 1 is attempt):
\* return it when it is no collision; otherwise sleep the backoff when
\* attempt < maxRetries - 1 (the timer fires at due or later: the jitter),
\* and return the last result when the loop is over
RetryReturned(q, dec) ==
  IF ~dec.collision THEN RetryDone(q, dec)
  ELSE IF q.ncalls - 1 < q.maxRetries - 1
  THEN [q EXCEPT !.pc = "backoff", !.dec = dec,
                 !.due = now + (2 ^ (q.ncalls - 1)) * defaultBaseBackoffMs]
  ELSE RetryDone(q, dec)

\* applyRateLimit threw inside the loop: applyRateLimitWithRetry rejects
RetryThrew(q) == [RetryDone(q, NoDec) EXCEPT !.threw = TRUE]

\* applyRateLimit returns dec to whoever awaits it
Returned(q, dec) == IF q.via = "retry" THEN RetryReturned(q, dec) ELSE Respond(q, dec)

\* applyRateLimit throws to whoever awaits it
Threw(q) == IF q.via = "retry" THEN RetryThrew(q) ELSE Thrown(q)

\* --------------------------------------------------- fully-atomic limiter
\* applyRateLimit up to await send(GetItemCommand)
AtomicCall(r, q) ==
  /\ req' = [req EXCEPT ![r] = [q EXCEPT !.pc = "get", !.ngets = @ + 1]]
  /\ UNCHANGED <<store, cacheV1, cacheV2>>

\* from the GetItem answer to the deny return or to await send(UpdateItemCommand)
AtomicGetReturn(r, outcome) ==
  /\ req[r].pc = "get" /\ req[r].lim = AtomicKey
  /\ outcome \in GetOutcomes
  /\ LET q == [req[r] EXCEPT !.got = outcome]
         item == sanitizeItem(AtomicKey, GotItem(outcome, q.client), now)
         dec == Decide(AtomicKey, item, item.cappedTokensFloored * TokScale)
         newTokens == NewTokens(AtomicKey, item.cappedTokens)
         u == UpdateOf("eq", newTokens, item.currentTime, item, 0, item.lastRefill)
         qb == [q EXCEPT !.basis = Basis(item, item.currentTime, FALSE)]
     IN req' = [req EXCEPT ![r] =
                  IF outcome = "error" THEN Threw(q)
                  ELSE IF ~dec.allowed THEN Returned(qb, dec)
                  ELSE [qb EXCEPT !.pc = "upd", !.dec = dec, !.u = u, !.nupds = @ + 1]]
  /\ UNCHANGED <<now, store, cacheV1, cacheV2, env>>

\* from the UpdateItem answer to the return or the throw
AtomicUpdReturn(r, outcome) ==
  /\ req[r].pc = "upd" /\ req[r].lim = AtomicKey
  /\ outcome \in UpdOutcomes
  /\ LET ok == CondHolds(req[r].u, store[req[r].client])
         q == [req[r] EXCEPT !.wrote = UpdAnswer(outcome, ok)]
     IN /\ store' = IF ok /\ outcome # "error" THEN Put(q.client, q.u) ELSE store
        /\ req' = [req EXCEPT ![r] =
                     IF outcome # "apply" THEN Threw(q)
                     ELSE IF ok THEN Returned(q, [q.dec EXCEPT !.allowed = TRUE])
                     ELSE Returned(q, [q.dec EXCEPT !.allowed = FALSE, !.collision = TRUE])]
  /\ UNCHANGED <<now, cacheV1, cacheV2, env>>

\* applyRateLimitWithRetry(ddbClient, table, clientId, maxRetries) in process
\* p up to its first await: the first applyRateLimit, or  return undefined
\* when the loop has nothing to do
RetryStart(r, p, c, maxRetries) ==
  /\ r <= env.maxReqs
  /\ req[r].pc = "idle"
  /\ \A s \in 1..(r - 1) : req[s].pc # "idle"
  /\ r \in env.retryReqs
  /\ p \in env.retryProcs /\ c \in env.clients /\ maxRetries \in env.maxRetries
  /\ env.single => \A s \in ReqIds : req[s].proc = p => req[s].pc \in {"idle", "done"}
  /\ LET q == [IdleReq EXCEPT !.proc = p, !.lim = AtomicKey, !.client = c,
                              !.via = "retry", !.maxRetries = maxRetries]
     IN IF 0 < maxRetries
        THEN AtomicCall(r, [q EXCEPT !.ncalls = @ + 1])
        ELSE /\ req' = [req EXCEPT ![r] = RetryDone(q, NoDec)]
             /\ UNCHANGED <<store, cacheV1, cacheV2>>
  /\ UNCHANGED <<now, env>>

\* the backoff timer fires: the next attempt
BackoffReturn(r) ==
  /\ req[r].pc = "backoff" /\ req[r].due <= now
  /\ AtomicCall(r, [req[r] EXCEPT !.ncalls = @ + 1])
  /\ UNCHANGED <<now, env>>

\* ------------------------------------------------------------- hybrid V1
\* a V1 that also persists the refilled bucket of a denied request
V1HotWritesOnDeny(r, q, e, fromCache) ==
  LET capped == Capped(V1Key, e, q.t)
      dec == Decide(V1Key, e, capped)
      newTokens == IF dec.allowed THEN NewTokens(V1Key, capped) ELSE capped
      e1 == [e EXCEPT !.tokens = newTokens, !.lastRefill = q.t, !.lastAccess = q.t]
      u == UpdateOf("any", newTokens, q.t, e, 0, 0)
      qb == [q EXCEPT !.basis = Basis(e, q.t, fromCache)]
  IN /\ cacheV1' = [cacheV1 EXCEPT ![q.proc][q.client] = e1]
     /\ req' = [req EXCEPT ![r] =
                  Respond([qb EXCEPT !.u = u, !.wpend = TRUE, !.nupds = @ + 1], dec)]
     /\ UNCHANGED <<store, cacheV2>>

\* the code after the cache lookup or refresh, to the return; e is cachedItem
V1Hot(r, q, e, fromCache) ==
  LET capped == Capped(V1Key, e, q.t)
      dec == Decide(V1Key, e, capped)
      newTokens == NewTokens(V1Key, capped)
      e1 == [e EXCEPT !.tokens = newTokens, !.lastRefill = q.t, !.lastAccess = q.t]
      u == UpdateOf("any", newTokens, q.t, e, 0, 0)
      qb == [q EXCEPT !.basis = Basis(e, q.t, fromCache)]
  IN /\ cacheV1' = [cacheV1 EXCEPT ![q.proc][q.client] = IF dec.allowed THEN e1 ELSE e]
     /\ req' = [req EXCEPT ![r] =
                  IF dec.allowed
                  THEN Respond([qb EXCEPT !.u = u, !.wpend = TRUE, !.nupds = @ + 1], dec)
                  ELSE Respond(qb, dec)]
     /\ UNCHANGED <<store, cacheV2>>

V1Call(r, q) ==
  LET e == cacheV1[q.proc][q.client]
  IN IF Stale(e, now)
     THEN /\ req' = [req EXCEPT ![r] = [q EXCEPT !.pc = "get", !.t = now, !.ngets = @ + 1]]
          /\ UNCHANGED <<store, cacheV1, cacheV2>>
     ELSE V1Hot(r, [q EXCEPT !.t = now], e, TRUE)

V1GetReturn(r, outcome) ==
  /\ req[r].pc = "get" /\ req[r].lim = V1Key
  /\ outcome \in GetOutcomes
  /\ LET q == [req[r] EXCEPT !.got = outcome]
     IN IF outcome = "error"
        THEN /\ req' = [req EXCEPT ![r] = Thrown(q)]
             /\ UNCHANGED <<store, cacheV1, cacheV2>>
        ELSE V1Hot(r, q, LoadedEntry(sanitizeItem(V1Key, GotItem(outcome, q.client), now),
                                     q.t), FALSE)
  /\ UNCHANGED <<now, env>>

\* the fire-and-forget UpdateItem of an allowed V1 request reaches the store,
\* or fails (logged)
V1WriteLands(r, applied) ==
  /\ req[r].wpend
  /\ applied \in (IF env.errs THEN BOOLEAN ELSE {TRUE})
  /\ store' = IF applied THEN Put(req[r].client, req[r].u) ELSE store
  /\ req' = [req EXCEPT ![r].wpend = FALSE, ![r].u = NoUpd,
                         ![r].client = IF env.keep THEN @ ELSE NoClient]
  /\ UNCHANGED <<now, cacheV1, cacheV2, env>>

\* ------------------------------------------------------------- hybrid V2
\* a sync that consumes whenever the request did, without re-checking that a
\* whole token is left
V2SyncParamsNoRecheck(e, t2, consumed) ==
  LET timeDelta == Max(0, t2 - e.lastRefill)
      oldTokens == e.tokens
      cappedTokens == Min(oldTokens + RefillUnits(e.refillRate, timeDelta, e.refillInterval),
                          e.maxTokens * TokScale)
      newTokens == IF consumed THEN cappedTokens - TokScale ELSE cappedTokens
  IN [kind |-> IF consumed THEN "ge" ELSE "same", newTokens |-> newTokens,
      currentTime |-> t2, refillRate |-> e.refillRate,
      refillInterval |-> e.refillInterval, maxTokens |-> e.maxTokens,
      expectedTokens |-> IF consumed THEN cappedTokens ELSE oldTokens,
      expectedLastRefill |-> e.lastRefill]

\* a sync that persists the cached count without the refill
V2SyncParamsNoRefill(e, t2, consumed) ==
  LET oldTokens == e.tokens
      isConsume == oldTokens >= TokScale /\ consumed
      newTokens == IF isConsume THEN oldTokens - TokScale ELSE oldTokens
  IN UpdateOf(IF isConsume THEN "ge" ELSE "same", newTokens, t2, e,
              oldTokens, e.lastRefill)

\* the updateParams syncToDynamo builds from cachedItem e at Date.now() = t2
V2SyncParams(e, t2, consumed) ==
  LET timeDelta == Max(0, t2 - e.lastRefill)
      oldTokens == e.tokens
      cappedTokens == Min(oldTokens + RefillUnits(e.refillRate, timeDelta, e.refillInterval),
                          e.maxTokens * TokScale)
      isConsume == cappedTokens >= TokScale /\ consumed
      newTokens == IF isConsume THEN cappedTokens - TokScale ELSE cappedTokens
  IN UpdateOf(IF isConsume THEN "ge" ELSE "same", newTokens, t2, e,
              IF isConsume THEN cappedTokens ELSE oldTokens, e.lastRefill)

\* syncToDynamo = async (retries = 2)
defaultRetries == 2

\* a sync called without its argument
SyncRetriesDefault == defaultRetries

\* the argument of the call syncToDynamo(0): Updates attempted again after
\* a failed condition
SyncRetries == 0

\* the code after the cache lookup or refresh, to the return or to the
\* await inside syncToDynamo(0); e is cachedItem
V2Hot(r, q, e, fromCache) ==
  LET timeDelta == Max(0, q.t - e.lastRefill)
      capped == Capped(V2Key, e, q.t)
      dec == Decide(V2Key, e, capped)
      isConsume == dec.allowed
      e1 == IF isConsume
            THEN [e EXCEPT !.tokens = NewTokens(V2Key, capped), !.lastAccess = q.t,
                           !.lastRefill = q.t]
            ELSE e
      qb == [q EXCEPT !.basis = Basis(e, q.t, fromCache)]
  IN /\ cacheV2' = [cacheV2 EXCEPT ![q.proc][q.client] = e1]
     /\ req' = [req EXCEPT ![r] =
                  IF timeDelta > 0 \/ isConsume
                  THEN [qb EXCEPT !.pc = "upd", !.dec = dec, !.t = now,
                                  !.u = V2SyncParams(e1, now, isConsume),
                                  !.retries = SyncRetries, !.nupds = @ + 1]
                  ELSE Respond(qb, dec)]
     /\ UNCHANGED <<store, cacheV1>>

V2Call(r, q) ==
  LET e == cacheV2[q.proc][q.client]
  IN IF Stale(e, now)
     THEN /\ req' = [req EXCEPT ![r] = [q EXCEPT !.pc = "get", !.t = now, !.ngets = @ + 1]]
          /\ UNCHANGED <<store, cacheV1, cacheV2>>
     ELSE V2Hot(r, [q EXCEPT !.t = now], e, TRUE)

V2GetReturn(r, outcome) ==
  /\ req[r].pc = "get" /\ req[r].lim = V2Key
  /\ outcome \in GetOutcomes
  /\ LET q == [req[r] EXCEPT !.got = outcome]
     IN IF outcome = "error"
        THEN /\ req' = [req EXCEPT ![r] = Thrown(q)]
             /\ UNCHANGED <<store, cacheV1, cacheV2>>
        ELSE V2Hot(r, q, LoadedEntry(sanitizeItem(V2Key, GotItem(outcome, q.client), now),
                                     q.t), FALSE)
  /\ UNCHANGED <<now, env>>

\* a sync that turns the decision into a deny when its write collided
SyncedDecisionDenied(dec, collided) ==
  [dec EXCEPT !.collision = collided, !.allowed = IF collided THEN FALSE ELSE @]

\* a sync that leaves the decision as it was
SyncedDecisionSilent(dec, collided) == dec

\* rateLimitResult after syncToDynamo: only collision is set, on
\* ConditionalCheckFailedException
SyncedDecision(dec, collided) == [dec EXCEPT !.collision = collided]

\* the answer to the UpdateItem of syncToDynamo: return, or on
\* ConditionalCheckFailedException set collision and await the GetItem
V2UpdReturn(r, outcome) ==
  /\ req[r].pc = "upd" /\ req[r].lim = V2Key
  /\ outcome \in UpdOutcomes
  /\ LET ok == CondHolds(req[r].u, store[req[r].client])
         q == [req[r] EXCEPT !.wrote = UpdAnswer(outcome, ok)]
     IN /\ store' = IF ok /\ outcome # "error" THEN Put(q.client, q.u) ELSE store
        /\ req' = [req EXCEPT ![r] =
                     IF outcome = "apply" /\ ~ok
                     THEN [q EXCEPT !.pc = "refresh", !.dec = SyncedDecision(q.dec, TRUE),
                                    !.ngets = @ + 1]
                     ELSE Respond(q, SyncedDecision(q.dec, FALSE))]
  /\ UNCHANGED <<now, cacheV1, cacheV2, env>>

\* the answer to the GetItem after a collision: the cache entry is replaced
\* by the sanitized item; with retries left syncToDynamo(retries - 1) builds
\* the next Update from the refreshed entry (isConsume as the sync before
\* left it: the Update it sent had the consume condition), otherwise
\* syncToDynamo gives up.  A GetItem that fails ends the sync (logged)
V2RefreshReturn(r, outcome) ==
  /\ req[r].pc = "refresh" /\ req[r].lim = V2Key
  /\ outcome \in GetOutcomes
  /\ LET q == req[r]
         e == LoadedEntry(sanitizeItem(V2Key, store[q.client], now), q.t)
     IN /\ cacheV2' = IF outcome = "ok"
                      THEN [cacheV2 EXCEPT ![q.proc][q.client] = e]
                      ELSE cacheV2
        /\ req' = [req EXCEPT ![r] =
                     IF outcome = "ok" /\ q.retries > 0
                     THEN [q EXCEPT !.pc = "upd", !.t = now,
                                    !.u = V2SyncParams(e, now, q.u.kind = "ge"),
                                    !.retries = @ - 1, !.nupds = @ + 1]
                     ELSE Respond(q, q.dec)]
  /\ UNCHANGED <<now, store, cacheV1, env>>

\* ------------------------------------------------------------------ handler
\* a handler that takes any authorization value for a bearer token
IsBearerAny(auth) == TRUE

\* authValue.startsWith("Bearer ")
IsBearer(auth) == auth = "bearer"

\* a handler that forwards the unauthenticated request as it came
ForwardAsIs(q) == Callback(q, [NoOut EXCEPT !.kind = "forward", !.clientId = q.inClientId])

\* no authorization header: x-client-id = unknown, forwarded
ForwardUnauthenticated(q) ==
  Callback(q, [NoOut EXCEPT !.kind = "forward", !.clientId = SetClientId(q, "unknown"),
                            !.collision = q.inCollision])

\* a handler that does not check the scopes
AfterVerifyNoScopes(v, path) ==
  IF ~v.ok \/ v.client_id = NoClient THEN "401" ELSE "limit"

\* what follows the verifier's answer v: 401 (it threw, or no client_id),
\* 403 (the scopes do not authorise the path), or the limiter
AfterVerify(v, path) ==
  IF ~v.ok \/ v.client_id = NoClient THEN "401"
  ELSE IF ~authorised(v.scope, path) THEN "403"
  ELSE "limit"

\* handler(event, context, callback) up to await verifier.verify(token)
HandlerStart(r, p, header, auth, path) ==
  /\ r <= env.maxReqs
  /\ req[r].pc = "idle"
  /\ \A s \in 1..(r - 1) : req[s].pc # "idle"
  /\ p \in env.procs /\ header \in env.headers
  /\ auth \in env.auths /\ path \in env.paths
  /\ env.seq => \A s \in ReqIds : req[s].pc \in {"idle", "done"}
  /\ env.prime => (r = 1 \/ req[1].pc = "done")
  /\ env.single => \A s \in ReqIds : req[s].proc = p => req[s].pc \in {"idle", "done"}
  /\ \E inCollision \in env.inCollision, inClientId \in env.inClientIds :
       LET q == [IdleReq EXCEPT !.proc = p, !.header = header,
                                !.inCollision = inCollision,
                                !.inClientId = inClientId,
                                !.lim = SelectLimiter(env.flag, header),
                                !.auth = auth, !.path = path]
       IN req' = [req EXCEPT ![r] =
                    IF auth = "none" THEN ForwardUnauthenticated(q)
                    ELSE IF ~IsBearer(auth) THEN Reject(q, "401")
                    ELSE [q EXCEPT !.pc = "verify", !.nverify = @ + 1]]
  /\ UNCHANGED <<now, store, cacheV1, cacheV2, env>>

\* applyRateLimit is an inherited property, not a limiter: Object(ddbClient,
\* ...) returns ddbClient, whose rateLimitLimit is undefined, so
\* rateLimitLimit.toString() throws; Object.prototype is not callable, so the
\* call throws.  Either way the catch answers 401
InheritedCall(r, q) ==
  /\ req' = [req EXCEPT ![r] = Thrown(q)]
  /\ UNCHANGED <<store, cacheV1, cacheV2>>

\* applyRateLimit(ddbClient, DYNAMODB_TABLE, clientId) up to its first await
LimiterCall(r, q) ==
  CASE q.lim = AtomicKey -> AtomicCall(r, q)
    [] q.lim = V1Key -> V1Call(r, q)
    [] q.lim \in InheritedKeys -> InheritedCall(r, q)
    [] OTHER -> V2Call(r, q)

\* from the verifier's answer v to a 401, a 403, or into the limiter
VerifyReturn(r, v) ==
  /\ req[r].pc = "verify"
  /\ v \in env.verdicts
  /\ LET q == [req[r] EXCEPT !.payload = v]
         next == AfterVerify(v, q.path)
     IN IF next # "limit"
        THEN /\ req' = [req EXCEPT ![r] = Reject(q, next)]
             /\ UNCHANGED <<store, cacheV1, cacheV2>>
        ELSE LimiterCall(r, [q EXCEPT !.client = v.client_id, !.ncalls = @ + 1])
  /\ UNCHANGED <<now, env>>

\* the clock advances by d ms
Tick(d) ==
  /\ d \in env.steps
  /\ now + d <= env.maxNow
  /\ now' = now + d
  /\ UNCHANGED <<store, cacheV1, cacheV2, req, env>>


\* ------------------------------------------------------------ environments
Item(tokens, lastRefill, refillRate, refillInterval, maxTokens) ==
  [tokens |-> tokens * TokScale, lastRefill |-> lastRefill, refillRate |-> refillRate,
   refillInterval |-> refillInterval, maxTokens |-> maxTokens]

\* Items a client can have before the first request of a behaviour: none;
\* configured by an operator with no counters yet; or as the limiters write
\* them.  refillRate 1 per refillInterval 1 s or 2 s.
SmallItems == {Item(n, 0, 1, 1, 2) : n \in 0..2}
InitItems ==
  {NoItem, [NoItem EXCEPT !.refillRate = 1, !.refillInterval = 1, !.maxTokens = 1],
   Item(2, 0, 1, 2, 3)} \cup SmallItems

\* one clock step: just over the staleness window
TickUnit == StaleMs + 1

AllVerdicts ==
  {Rejected, Claims(NoClient, <<"tariff/read">>), Claims("c1", <<"invalid/scope">>),
   Claims("c1", <<"tariff/read">>)}

\* every request authenticated and authorised for client c1
GoodCaller(e) ==
  [e EXCEPT !.auths = {"bearer"}, !.paths = {GoodPath},
            !.verdicts = {Claims("c1", <<"tariff/read">>)}]

BaseEnv ==
  [flag |-> TRUE, procs |-> {"p1"}, clients |-> {"c1"},
   headers |-> {AtomicKey, V1Key, V2Key},
   auths |-> {"none", "basic", "bearer"}, paths |-> {GoodPath, ExcludedPath},
   verdicts |-> AllVerdicts, seq |-> FALSE, prime |-> FALSE, single |-> FALSE,
   keep |-> TRUE, errs |-> FALSE, item0 |-> NoItem, scopes |-> IndexScopes,
   inCollision |-> {FALSE}, table |-> TRUE, track |-> FALSE, maxRetries |-> {},
   retryProcs |-> {}, retryReqs |-> {}, inClientIds |-> {NoClient},
   maxReqs |-> MaxReqs, steps |-> {TickUnit}, maxNow |-> MaxSeqTicks * TickUnit]

InitWith(e, items) ==
  /\ now = 0
  /\ \E i \in items :
       /\ env = [e EXCEPT !.item0 = i]
       /\ store = [c \in Clients |-> IF c \in e.clients THEN i ELSE NoItem]
  /\ cacheV1 = [p \in Procs |-> [c \in Clients |-> NoEntry]]
  /\ cacheV2 = [p \in Procs |-> [c \in Clients |-> NoEntry]]
  /\ req = [r \in ReqIds |-> IdleReq]

\* ------------------------------------------------------------ specifications
Next ==
  \/ \E d \in {TickUnit} : Tick(d)
  \/ \E r \in ReqIds, p \in Procs,
        h \in LimiterKeys \cup InheritedKeys \cup {"absent", "bogus"},
        a \in {"none", "basic", "bearer"}, path \in {GoodPath, ExcludedPath} :
       HandlerStart(r, p, h, a, path)
  \/ \E r \in ReqIds, v \in AllVerdicts \cup {Claims("c2", <<"tariff/read">>)} :
       VerifyReturn(r, v)
  \/ \E r \in ReqIds, o \in {"ok", "error"} : AtomicGetReturn(r, o)
  \/ \E r \in ReqIds, o \in {"apply", "error", "timeout"} : AtomicUpdReturn(r, o)
  \/ \E r \in ReqIds, o \in {"ok", "error"} : V1GetReturn(r, o)
  \/ \E r \in ReqIds, b \in BOOLEAN : V1WriteLands(r, b)
  \/ \E r \in ReqIds, o \in {"ok", "error"} : V2GetReturn(r, o)
  \/ \E r \in ReqIds, o \in {"apply", "error", "timeout"} : V2UpdReturn(r, o)
  \/ \E r \in ReqIds, o \in {"ok", "error"} : V2RefreshReturn(r, o)

\* Spec: two processes (execution environments, each handling one invocation
\* at a time), the three limiters chosen by header, authenticated and
\* authorised callers, store errors; invocations of the two processes and
\* the writes in flight overlap freely
Init ==
  InitWith(GoodCaller([BaseEnv EXCEPT !.procs = Procs, !.errs = TRUE, !.keep = FALSE,
                                      !.single = TRUE, !.maxNow = MaxTicks * TickUnit]),
           InitItems)

Spec == Init /\ [][Next]_vars

\* SpecOrch: one process, one request at a time, every kind of caller and of
\* verifier answer for two clients, the limiter chosen by header (the
\* fully-atomic one) or by default (V2), store errors; every request for
\* the path /uk/api/v2/headings (SpecScopes varies the path)
NextOrch ==
  \/ \E d \in {TickUnit} : Tick(d)
  \/ \E r \in ReqIds, p \in Procs, h \in LimiterKeys \cup {"absent", "bogus"},
        a \in {"none", "basic", "bearer"}, path \in {GoodPath, ExcludedPath} :
       HandlerStart(r, p, h, a, path)
  \/ \E r \in ReqIds, v \in AllVerdicts \cup {Claims("c2", <<"tariff/read">>)} :
       VerifyReturn(r, v)
  \/ \E r \in ReqIds, o \in {"ok", "error"} : AtomicGetReturn(r, o)
  \/ \E r \in ReqIds, o \in {"apply", "error", "timeout"} : AtomicUpdReturn(r, o)
  \/ \E r \in ReqIds, o \in {"ok", "error"} : V2GetReturn(r, o)
  \/ \E r \in ReqIds, o \in {"apply", "error", "timeout"} : V2UpdReturn(r, o)
  \/ \E r \in ReqIds, o \in {"ok", "error"} : V2RefreshReturn(r, o)

InitOrch ==
  InitWith([BaseEnv EXCEPT !.headers = {AtomicKey, "absent"}, !.paths = {GoodPath},
                           !.errs = TRUE, !.seq = TRUE, !.maxReqs = MaxOrchReqs,
                           !.maxNow = MaxTicks * TickUnit, !.clients = Clients,
                           !.verdicts = AllVerdicts \cup {Claims("c2", <<"tariff/read">>)}],
           {Item(1, 0, 1, 1, 2)})

SpecOrch == InitOrch /\ [][NextOrch]_vars

\* ------------------------------------------------- fully-atomic, one process
NextAtomic ==
  \/ \E d \in {TickUnit} : Tick(d)
  \/ \E r \in ReqIds, p \in Procs, h \in LimiterKeys,
        a \in {"bearer"}, path \in {GoodPath} : HandlerStart(r, p, h, a, path)
  \/ \E r \in ReqIds, v \in AllVerdicts : VerifyReturn(r, v)
  \/ \E r \in ReqIds, o \in {"ok", "error", "notfound"} : AtomicGetReturn(r, o)
  \/ \E r \in ReqIds, o \in {"apply", "error", "timeout"} : AtomicUpdReturn(r, o)

\* SpecAtomicSeq: one process, one client, the fully-atomic limiter, one
\* request at a time, no other writer of the item; the table there or not
InitAtomicSeq ==
  \E table \in BOOLEAN :
    InitWith(GoodCaller([BaseEnv EXCEPT !.headers = {AtomicKey}, !.seq = TRUE,
                                        !.errs = TRUE, !.table = table,
                                        !.maxReqs = MaxSeqReqs]),
             IF table THEN InitItems ELSE {NoItem})

SpecAtomicSeq == InitAtomicSeq /\ [][NextAtomic]_vars

\* the limiter answered request r allowed: true
AllowedReq(r) ==
  /\ req[r].pc = "done" /\ req[r].dec.has /\ req[r].dec.allowed

\* the allowed requests decided in [from, to] (Date.now() of the decision)
AllowedIn(from, to) ==
  {r \in ReqIds : AllowedReq(r) /\ req[r].basis.now >= from /\ req[r].basis.now <= to}

\* maxTokens + floor(refillRate * W / (refillInterval * 1000)) for bucket b
WindowBound(b, W) ==
  b.maxTokens + FloorTok(RefillUnits(b.refillRate, W, b.refillInterval))

\* C1: fully-atomic limiter, one process calling sequentially, no other
\* writer: the allowed requests of any window of W ms number at most
\* maxTokens + floor(refillRate * W / (refillInterval * 1000))
C1_WindowBound ==
  \A i, j \in ReqIds :
    (AllowedReq(i) /\ AllowedReq(j) /\ req[i].basis.now <= req[j].basis.now)
    => Cardinality(AllowedIn(req[i].basis.now, req[j].basis.now))
         <= WindowBound(req[j].basis, req[j].basis.now - req[i].basis.now)

\* the bound is met with equality over a window that saw a refill
C1_Witness ==
  \E i, j \in ReqIds :
    /\ AllowedReq(i) /\ AllowedReq(j) /\ req[i].basis.now < req[j].basis.now
    /\ Cardinality(AllowedIn(req[i].basis.now, req[j].basis.now))
         = WindowBound(req[j].basis, req[j].basis.now - req[i].basis.now)
    /\ \E k \in ReqIds : req[k].pc = "done" /\ req[k].out.kind = "429"

\* ------------------------------------------- fully-atomic, two processes
\* SpecAtomicPar: two processes, one client, the fully-atomic limiter, the
\* requests of the two processes overlapping freely
InitAtomicPar ==
  InitWith(GoodCaller([BaseEnv EXCEPT !.headers = {AtomicKey}, !.procs = Procs,
                                      !.single = TRUE,
                                      !.maxNow = MaxTicks * TickUnit]),
           InitItems)

SpecAtomicPar == InitAtomicPar /\ [][NextAtomic]_vars

\* the bucket of the client before the first request (env.item0 is the
\* item the behaviour started with), as limiter lim reads it at time 0
StartBucket(lim) == sanitizeItem(lim, env.item0, 0)

\* whole tokens the start bucket held plus those refilled up to time t
Budget(lim, t) ==
  LET b == StartBucket(lim)
  IN FloorTok(b.tokens + RefillUnits(b.refillRate, Max(0, t - b.lastRefill), b.refillInterval))

\* C2: processes running the fully-atomic limiter concurrently for one
\* client: the requests allowed never number more than the tokens the bucket
\* held at the start plus the tokens refilled since
C2_NoOverIssue ==
  Cardinality({r \in ReqIds : AllowedReq(r)}) <= Budget(AtomicKey, now)

\* ------------------------------------------ one process, the three limiters
\* SpecSeq: one process, one client, one request at a time, each request
\* under the limiter its header selects, no store errors
InitSeq ==
  InitWith(GoodCaller([BaseEnv EXCEPT !.seq = TRUE, !.maxReqs = MaxSeqReqs]), InitItems)

SpecSeq == InitSeq /\ [][Next]_vars

\* the limiter returned a decision to request r and met no collision
Decided(r) ==
  /\ req[r].pc = "done" /\ req[r].dec.has /\ ~req[r].dec.collision

\* floor(min(tokens + refillRate * max(0, now - lastRefill) /
\* (refillInterval * 1000), maxTokens)) of the bucket b read at b.now
ExactFloored(b) ==
  FloorTok(Min(b.tokens + RefillUnits(b.refillRate, Max(0, b.now - b.lastRefill),
                                      b.refillInterval),
               b.maxTokens * TokScale))

\* C3: each limiter, without store error or write collision, allows exactly
\* when floor(min(tokens + refillRate * max(0, now - lastRefill) /
\* (refillInterval * 1000), maxTokens)) >= 1 on the sanitized bucket it read
C3_AllowedIffFormula ==
  \A r \in ReqIds :
    Decided(r) => (req[r].dec.allowed <=> ExactFloored(req[r].basis) >= 1)

\* ---------------------------------------------- hybrid V2, one process, burst
NextV2Burst ==
  \/ \E r \in ReqIds, p \in Procs, h \in LimiterKeys,
        a \in {"bearer"}, path \in {GoodPath} : HandlerStart(r, p, h, a, path)
  \/ \E r \in ReqIds, v \in AllVerdicts : VerifyReturn(r, v)
  \/ \E r \in ReqIds, o \in {"ok"} : V2GetReturn(r, o)
  \/ \E r \in ReqIds, o \in {"apply"} : V2UpdReturn(r, o)
  \/ \E r \in ReqIds, o \in {"ok"} : V2RefreshReturn(r, o)

BurstItems == {Item(n, 0, 1, 1, 3) : n \in 0..3}

\* SpecV2Burst: one process, one client, hybrid V2.  Request 1 runs alone and
\* leaves the bucket in the cache; the others then run concurrently, in the
\* same millisecond
InitV2Burst ==
  InitWith(GoodCaller([BaseEnv EXCEPT !.headers = {V2Key}, !.prime = TRUE,
                                      !.maxReqs = MaxBurst, !.steps = {}]),
           BurstItems)

SpecV2Burst == InitV2Burst /\ [][NextV2Burst]_vars

\* the requests of the burst, and those allowed
Burst == {r \in ReqIds : r > 1 /\ req[r].pc # "idle"}
BurstAllowed == {r \in Burst : AllowedReq(r)}

\* n: the whole tokens request 1 left in the cache
BurstTokens == req[1].dec.rateLimitRemaining

\* C4: hybrid V2, one process: of k concurrent requests of a client against
\* a cached bucket of n whole tokens, with no refill, exactly min(n, k) are
\* allowed and the floored cached count ends at n - min(n, k)
C4_BurstExact ==
  (/\ req[1].pc = "done" /\ req[1].dec.has /\ ~req[1].dec.collision
   /\ Burst # {} /\ \A r \in Burst : req[r].pc = "done")
  => /\ Cardinality(BurstAllowed) = Min(BurstTokens, Cardinality(Burst))
     /\ FloorTok(cacheV2["p1"]["c1"].tokens)
          = BurstTokens - Min(BurstTokens, Cardinality(Burst))

\* whole tokens in the bucket request r read, at the time it read it
WholeTokens(r) == ExactFloored(req[r].basis)

\* requests r and s are consecutive calls of the one limiter in use, with
\* no time passing between them
Consecutive(r, s) ==
  /\ s = r + 1 /\ req[r].pc = "done" /\ req[s].pc = "done"
  /\ req[r].dec.has /\ req[s].dec.has
  /\ \A q \in ReqIds : req[q].pc # "idle" => req[q].lim = req[r].lim
  /\ req[r].basis.now = req[s].basis.now

\* C5: every limiter, one process: each allowed call lowers the count by
\* exactly one (remaining n-1, n-2, ..., 0), the call after remaining 0 is
\* denied, and nothing but refill raises the count
C5_CountsDown ==
  \A r, s \in ReqIds :
    (Consecutive(r, s) /\ req[r].dec.allowed)
    => /\ req[r].dec.rateLimitRemaining = WholeTokens(r) - 1
       /\ req[r].dec.rateLimitRemaining = 0 => ~req[s].dec.allowed
       /\ req[r].dec.rateLimitRemaining >= 1
            => /\ req[s].dec.allowed
               /\ req[s].dec.rateLimitRemaining = req[r].dec.rateLimitRemaining - 1

\* a tokens count t (in units) lies within the bucket of maxTokens
InBucket(t, maxTokens) == 0 <= t /\ t <= maxTokens * TokScale

\* C6: in every reachable state, whatever the limiters, the interleaving of
\* the processes and the clock: each client's persisted tokens and each
\* cache entry's tokens lie between 0 and the bucket's maxTokens
C6_TokensInBucket ==
  /\ \A c \in Clients :
       store[c].tokens # NaN => InBucket(store[c].tokens, store[c].maxTokens)
  /\ \A p \in Procs, c \in Clients :
       /\ cacheV1[p][c].present => InBucket(cacheV1[p][c].tokens, cacheV1[p][c].maxTokens)
       /\ cacheV2[p][c].present => InBucket(cacheV2[p][c].tokens, cacheV2[p][c].maxTokens)

\* after a refill, a write has emptied the persisted bucket while a V1 and a
\* V2 cache entry exist
C6_Witness ==
  /\ store["c1"].tokens = 0 /\ store["c1"].lastRefill > 0
  /\ \E p \in Procs : cacheV1[p]["c1"].present
  /\ \E p \in Procs : cacheV2[p]["c1"].present

\* ------------------------------------------------- orchestrator properties
\* request r carried a bearer token the verifier accepted, with a client_id
Verified(r) ==
  /\ req[r].auth = "bearer" /\ req[r].nverify = 1 /\ req[r].pc \notin {"idle", "verify"}
  /\ req[r].payload.ok /\ req[r].payload.client_id # NoClient

\* ... and scopes that authorise its path
Authorised(r) == Verified(r) /\ authorised(req[r].payload.scope, req[r].path)

\* the three x-ratelimit headers of the answer are those of the decision
HeadersOf(out, dec) ==
  /\ out.rl /\ out.limit = dec.rateLimitLimit
  /\ out.remaining = dec.rateLimitRemaining /\ out.reset = dec.rateLimitReset

\* C7: a verified and authorised request whose limiter returned a decision
\* is answered 429 exactly when allowed = false, and forwarded otherwise with
\* x-client-id the verified client id; either way the answer carries
\* x-ratelimit-limit, -remaining and -reset of the decision
C7_AnswerFollowsDecision ==
  \A r \in ReqIds :
    (req[r].pc = "done" /\ Authorised(r) /\ req[r].dec.has)
    => /\ req[r].out.kind = "429" <=> ~req[r].dec.allowed
       /\ req[r].out.kind = "forward" <=> req[r].dec.allowed
       /\ HeadersOf(req[r].out, req[r].dec)
       /\ req[r].dec.allowed => req[r].out.clientId = req[r].payload.client_id

\* one authorised request was forwarded for its client and another answered
\* 429, both with the headers of their decisions
C7_Witness ==
  \E r, s \in ReqIds :
    /\ req[r].pc = "done" /\ Authorised(r) /\ req[r].dec.has /\ req[r].dec.allowed
    /\ req[r].out.kind = "forward" /\ req[r].out.clientId = "c2"
    /\ req[s].pc = "done" /\ Authorised(s) /\ req[s].dec.has /\ ~req[s].dec.allowed
    /\ req[s].out.kind = "429" /\ req[s].out.rl

\* the authorization header of request r is no bearer token, or the verifier
\* rejected the token, or the claims have no client_id
BadCredentials(r) ==
  \/ req[r].auth = "basic"
  \/ /\ req[r].auth = "bearer" /\ req[r].nverify = 1
     /\ ~req[r].payload.ok \/ req[r].payload.client_id = NoClient

\* C8: a request with an authorization header that does not start with
\* "Bearer ", or whose token the verifier rejects, or whose claims have no
\* client_id, is answered 401 and not forwarded
C8_Unauthorized ==
  \A r \in ReqIds :
    (req[r].pc = "done" /\ BadCredentials(r))
    => /\ req[r].out.kind = "401" /\ req[r].ncallbacks = 1
       /\ req[r].ncalls = 0 /\ ~req[r].out.rl

\* a token the verifier rejected and claims without client_id, both 401
C8_Witness ==
  \E r, s \in ReqIds :
    /\ req[r].pc = "done" /\ req[r].nverify = 1 /\ ~req[r].payload.ok
    /\ req[r].out.kind = "401"
    /\ req[s].pc = "done" /\ req[s].nverify = 1 /\ req[s].payload.ok
    /\ req[s].payload.client_id = NoClient /\ req[s].out.kind = "401"

\* request r is answered in this step
Answered(r) == req[r].pc # "done" /\ req'[r].pc = "done"

\* the limiter is entered for request r in this step
Invoked(r) == req'[r].ncalls > req[r].ncalls

Buckets == <<store, cacheV1, cacheV2>>

C10_Unauthenticated ==
  [][\A r \in ReqIds :
       (req[r].pc = "idle" /\ req'[r].pc # "idle" /\ req'[r].auth = "none")
       => /\ req'[r].pc = "done" /\ req'[r].ncallbacks = 1
          /\ req'[r].out.kind = "forward" /\ req'[r].out.clientId = "unknown"
          /\ req'[r].nverify = 0 /\ req'[r].ncalls = 0
          /\ req'[r].ngets = 0 /\ req'[r].nupds = 0
          /\ UNCHANGED Buckets]_vars

\* two requests without authorization header forwarded as unknown, the
\* store as it was at the start
C10_Witness ==
  \E r, s \in ReqIds :
    /\ r # s /\ req[r].pc = "done" /\ req[s].pc = "done"
    /\ req[r].auth = "none" /\ req[s].auth = "none"
    /\ req[r].out.kind = "forward" /\ req[r].out.clientId = "unknown"
    /\ req[s].out.kind = "forward" /\ req[s].out.clientId = "unknown"
    /\ \A c \in Clients : store[c] = env.item0


\* ------------------------------------------------------ limiter selection
\* SpecSelect: one process, one client, one request at a time, authenticated
\* and authorised; the flag on or off; the x-rate-limiter header absent, one
\* of the three keys, an unknown value, or the name of an inherited property
InitSelect ==
  \E flag \in BOOLEAN :
    InitWith(GoodCaller([BaseEnv EXCEPT
                           !.flag = flag, !.seq = TRUE,
                           !.headers = LimiterKeys \cup InheritedKeys \cup {"absent", "bogus"},
                           !.maxNow = MaxTicks * TickUnit]),
             {Item(1, 0, 1, 1, 2)})

SpecSelect == InitSelect /\ [][Next]_vars

\* the handler reached applyRateLimit(ddbClient, DYNAMODB_TABLE, clientId)
ReachedLimiter(r) == req[r].pc # "idle" /\ req[r].ncalls > 0

\* the limiter request r ran, "none" when what it called is not a limiter
LimiterRun(r) == IF req[r].lim \in LimiterKeys THEN req[r].lim ELSE "none"

\* C11: flag on and x-rate-limiter one of the three keys: that limiter is
\* invoked, once; in every other case (flag off, header absent, any other
\* value) hybrid V2 is invoked, once
C11_LimiterSelected ==
  \A r \in ReqIds :
    ReachedLimiter(r)
    => /\ req[r].ncalls = 1
       /\ LimiterRun(r) = IF env.flag /\ req[r].header \in LimiterKeys
                          THEN req[r].header ELSE V2Key


\* ----------------------------------------------------------- authorisation
OtherPath == <<"/healthcheck">>
UserPath == <<"/api", "/v2", "/", "user", "/me">>

\* a SCOPES map of three scopes: one as in IndexScopes, one without
\* excludedPaths, one without allowedPaths
ThreeScopes ==
  [scope \in {<<"tariff/read">>, <<"green_lanes/read">>, <<"none/read">>} |->
     CASE scope = <<"tariff/read">> -> IndexScopes[scope]
       [] scope = <<"green_lanes/read">> -> ScopeConfig(<< >>, << <<"/uk", "/api">> >>)
       [] OTHER -> ScopeConfig(<< <<"user">> >>, << >>)]

\* values of payload.scope: absent or empty, one scope, lists of two
ScopeStrings ==
  {<< >>, <<"tariff/read">>, <<"green_lanes/read">>, <<"invalid/scope">>,
   <<"none/read">>, <<"tariff/read", " ", "green_lanes/read">>,
   <<"invalid/scope", " ", "tariff/read">>, <<"tariff/read", " ", " ", "none/read">>,
   <<"tariff", "/read">>}

NextScopes ==
  \/ \E r \in ReqIds, p \in Procs, h \in {"absent"}, a \in {"bearer"},
        path \in {GoodPath, ExcludedPath, OtherPath, UserPath} :
       HandlerStart(r, p, h, a, path)
  \/ \E r \in ReqIds, scope \in ScopeStrings : VerifyReturn(r, Claims("c1", scope))
  \/ \E r \in ReqIds, o \in {"ok"} : V2GetReturn(r, o)
  \/ \E r \in ReqIds, o \in {"apply"} : V2UpdReturn(r, o)

\* SpecScopes: one process, one request at a time, every token verified for
\* client c1 with any of the scope values, under either SCOPES map
InitScopes ==
  \E scopes \in {IndexScopes, ThreeScopes} :
    InitWith([BaseEnv EXCEPT !.scopes = scopes, !.headers = {"absent"},
                             !.auths = {"bearer"}, !.seq = TRUE, !.steps = {},
                             !.paths = {GoodPath, ExcludedPath, OtherPath, UserPath},
                             !.verdicts = {Claims("c1", scope) : scope \in ScopeStrings}],
             {Item(2, 0, 1, 1, 2)})

SpecScopes == InitScopes /\ [][NextScopes]_vars

\* the scopes named in a space-separated list
ScopesNamed(scopes) ==
  LET cut == {0, Len(scopes) + 1} \cup {i \in 1..Len(scopes) : scopes[i] = " "}
  IN {SubSeq(scopes, i + 1, j - 1) : i, j \in cut} \ {<< >>}

\* scope has a configuration, none of its excludedPaths is a substring of
\* the path and one of its allowedPaths is a prefix of it
Permits(scope, path) ==
  /\ scope \in DOMAIN env.scopes
  /\ \A i \in 1..Len(env.scopes[scope].excludedPaths) :
       ~Includes(path, env.scopes[scope].excludedPaths[i])
  /\ \E i \in 1..Len(env.scopes[scope].allowedPaths) :
       StartsWith(path, env.scopes[scope].allowedPaths[i])

\* request r has got past the verifier with a client_id
PastVerifier(r) ==
  /\ req[r].pc \notin {"idle", "verify"}
  /\ req[r].payload.ok /\ req[r].payload.client_id # NoClient

\* C12: authorised(scopes, path) is true exactly when the scope list names
\* a configured scope none of whose excludedPaths is a substring of the path
\* and one of whose allowedPaths is a prefix of it (an excluded scope not
\* stopping a later one); an absent or empty list gives false.  Seen at the
\* handler: 403 exactly when authorised is false
C12_AuthorisedExactly ==
  \A r \in ReqIds :
    PastVerifier(r)
    => LET scopes == req[r].payload.scope
           permitted == \E scope \in ScopesNamed(scopes) : Permits(scope, req[r].path)
       IN /\ authorised(scopes, req[r].path) <=> permitted
          /\ req[r].out.kind = "403" <=> ~permitted
          /\ scopes = << >> => req[r].out.kind = "403"

\* a request whose first scope is excluded for the path and whose second
\* allows it went on to the limiter, and one with no scope was answered 403
C12_Witness ==
  \E r, s \in ReqIds :
    /\ PastVerifier(r) /\ req[r].path = ExcludedPath
    /\ req[r].payload.scope = <<"tariff/read", " ", "green_lanes/read">>
    /\ env.scopes = ThreeScopes
    /\ req[r].ncalls = 1 /\ req[r].out.kind = "forward"
    /\ PastVerifier(s) /\ req[s].payload.scope = << >> /\ req[s].out.kind = "403"


\* --------------------------------------------------------- collision header
NextCollision ==
  \/ \E r \in ReqIds, p \in Procs, h \in {AtomicKey, V2Key},
        a \in {"bearer"}, path \in {GoodPath} : HandlerStart(r, p, h, a, path)
  \/ \E r \in ReqIds, v \in AllVerdicts : VerifyReturn(r, v)
  \/ \E r \in ReqIds, o \in {"ok"} : AtomicGetReturn(r, o)
  \/ \E r \in ReqIds, o \in {"apply"} : AtomicUpdReturn(r, o)
  \/ \E r \in ReqIds, o \in {"ok"} : V2GetReturn(r, o)
  \/ \E r \in ReqIds, o \in {"apply"} : V2UpdReturn(r, o)
  \/ \E r \in ReqIds, o \in {"ok"} : V2RefreshReturn(r, o)

\* SpecCollision: two processes, one client, the fully-atomic limiter or
\* hybrid V2 by header, requests overlapping, in one millisecond; a request
\* may arrive carrying a header x-ratelimit-collision: true of its own
InitCollision ==
  InitWith(GoodCaller([BaseEnv EXCEPT !.headers = {AtomicKey, V2Key}, !.procs = Procs,
                                      !.single = TRUE, !.steps = {},
                                      !.inCollision = BOOLEAN]),
           {Item(n, 0, 1, 1, 2) : n \in 0..2})

SpecCollision == InitCollision /\ [][NextCollision]_vars

\* C13: the output for a request with a decision (the 429 response headers
\* or the forwarded request headers) holds x-ratelimit-collision: true if
\* and only if the decision has collision = true
C13_CollisionHeaderIff ==
  \A r \in ReqIds :
    (req[r].pc = "done" /\ req[r].dec.has)
    => (req[r].out.collision <=> req[r].dec.collision)


\* ------------------------------------------- hybrid limiters, store errors
NextHybrid ==
  \/ \E d \in {TickUnit} : Tick(d)
  \/ \E r \in ReqIds, p \in Procs, h \in {V1Key, V2Key},
        a \in {"bearer"}, path \in {GoodPath} : HandlerStart(r, p, h, a, path)
  \/ \E r \in ReqIds, v \in AllVerdicts : VerifyReturn(r, v)
  \/ \E r \in ReqIds, o \in {"ok", "error", "notfound"} : V1GetReturn(r, o)
  \/ \E r \in ReqIds, b \in BOOLEAN : V1WriteLands(r, b)
  \/ \E r \in ReqIds, o \in {"ok", "error", "notfound"} : V2GetReturn(r, o)
  \/ \E r \in ReqIds, o \in {"apply", "error", "timeout"} : V2UpdReturn(r, o)
  \/ \E r \in ReqIds, o \in {"ok", "error"} : V2RefreshReturn(r, o)

\* SpecHybrid: one process, one client, hybrid V1 or V2 by header, one
\* request at a time (the write of a V1 request may still be in flight),
\* store errors; the table there or not
InitHybrid ==
  \E table \in BOOLEAN :
    InitWith(GoodCaller([BaseEnv EXCEPT !.headers = {V1Key, V2Key}, !.seq = TRUE,
                                        !.errs = TRUE, !.table = table,
                                        !.maxNow = MaxTicks * TickUnit]),
             IF table THEN InitItems ELSE {NoItem})

SpecHybrid == InitHybrid /\ [][NextHybrid]_vars

\* the deny decision of a limiter that fails closed
FailClosed ==
  [NoDec EXCEPT !.has = TRUE, !.allowed = FALSE, !.rateLimitRemaining = 0,
                !.rateLimitLimit = defaultMaxTokens, !.rateLimitReset = 0]

\* C14: hybrid limiters (V1, V2): when the hot path Get fails with a
\* transport error or a timeout, applyRateLimit does not throw, it returns
\* allowed = false, rateLimitRemaining = 0, rateLimitLimit = 500,
\* rateLimitReset = 0, and the cache has no entry for the client
C14_HybridGetFailsClosed ==
  \A r \in ReqIds :
    (req[r].lim \in {V1Key, V2Key} /\ req[r].got = "error")
    => /\ ~req[r].threw
       /\ req[r].dec = FailClosed
       /\ ~cacheV1[req[r].proc]["c1"].present
       /\ ~cacheV2[req[r].proc]["c1"].present


\* ---------------------------------------- fully-atomic limiter, store errors
\* the store failed request r with a transport error, on the Get or on the
\* Update
StoreFailed(r) == req[r].got = "error" \/ req[r].wrote = "error"

\* C15: fully-atomic limiter: when the store fails with a transport error on
\* the Get or on the Update, the limiter returns no decision (it throws),
\* the handler answers 401, does not forward, and calls the limiter and the
\* store no further
C15_AtomicErrorIs401 ==
  \A r \in ReqIds :
    (req[r].lim = AtomicKey /\ StoreFailed(r))
    => /\ req[r].pc = "done" /\ req[r].threw /\ ~req[r].dec.has
       /\ req[r].out = [NoOut EXCEPT !.kind = "401"]
       /\ req[r].ncallbacks = 1 /\ req[r].ncalls = 1 /\ req[r].ngets = 1
       /\ req[r].nupds = IF req[r].got = "error" THEN 0 ELSE 1

\* one request failed on its Get, a later one on its Update, and the store
\* holds what it held before them
C15_Witness ==
  \E r, s \in ReqIds :
    /\ req[r].lim = AtomicKey /\ req[r].got = "error" /\ req[r].out.kind = "401"
    /\ req[s].lim = AtomicKey /\ req[s].got = "ok" /\ req[s].wrote = "error"
    /\ req[s].out.kind = "401"
    /\ store["c1"] = env.item0


\* floor(min(tokens + refill, maxTokens)) as the limiter of request r
\* computed it from the bucket it read: the count before the token is taken
PreConsumption(r) == FloorTok(Capped(req[r].lim, req[r].basis, req[r].basis.now))

\* C16: fully-atomic limiter: when the conditional Update fails its
\* condition, applyRateLimit does not throw and returns allowed = false,
\* collision = true and rateLimitRemaining = the floored token count before
\* the requested token is subtracted
C16_CollisionRemainingPre ==
  \A r \in ReqIds :
    (req[r].lim = AtomicKey /\ req[r].wrote = "ccf")
    => /\ ~req[r].threw /\ req[r].dec.has
       /\ ~req[r].dec.allowed /\ req[r].dec.collision
       /\ req[r].dec.rateLimitRemaining = PreConsumption(r)


\* rateLimitResult as computed from the cached bucket of request r, before
\* any write
DecisionBeforeWrite(r) ==
  Decide(req[r].lim, req[r].basis, Capped(req[r].lim, req[r].basis, req[r].basis.now))

\* C17: hybrid limiters (V1, V2): whatever the outcome of the Update issued
\* for a request (success, condition failed, transport error, timeout),
\* applyRateLimit does not throw and the decision's allowed,
\* rateLimitRemaining, rateLimitLimit and rateLimitReset are the values
\* computed from the cache before the write
C17_WriteNeverRevises ==
  \A r \in ReqIds :
    (req[r].lim \in {V1Key, V2Key} /\ req[r].pc = "done" /\ req[r].nupds > 0)
    => /\ ~req[r].threw /\ req[r].dec.has
       /\ req[r].dec.allowed = DecisionBeforeWrite(r).allowed
       /\ req[r].dec.rateLimitRemaining = DecisionBeforeWrite(r).rateLimitRemaining
       /\ req[r].dec.rateLimitLimit = DecisionBeforeWrite(r).rateLimitLimit
       /\ req[r].dec.rateLimitReset = DecisionBeforeWrite(r).rateLimitReset

\* a V2 request whose Update failed its condition and a V1 request whose
\* Update was lost were both allowed and forwarded
C17_Witness ==
  \E r, s \in ReqIds :
    /\ req[r].lim = V2Key /\ req[r].pc = "done" /\ req[r].wrote = "ccf"
    /\ req[r].dec.allowed /\ req[r].dec.collision /\ req[r].out.kind = "forward"
    /\ req[s].lim = V1Key /\ req[s].pc = "done" /\ req[s].nupds = 1 /\ ~req[s].wpend
    /\ req[s].dec.allowed /\ req[s].out.kind = "forward"


\* the decision for the first call of a client treated as a full bucket of
\* the defaults maxTokens = 500, refillRate = 300, refillInterval = 60
FirstOfDefaults ==
  [has |-> TRUE, allowed |-> TRUE, rateLimitRemaining |-> defaultMaxTokens - 1,
   rateLimitLimit |-> defaultMaxTokens,
   rateLimitReset |-> CeilDiv(defaultInterval, defaultRefillRate), collision |-> FALSE]

\* C18: every limiter: a client with no item in the store and no cache entry
\* is a full bucket of the defaults maxTokens = 500, refillRate = 300,
\* refillInterval = 60: its first call is allowed with rateLimitLimit = 500,
\* rateLimitRemaining = 499, rateLimitReset = 1, collision = false
C18_NewClientDefaults ==
  (env.item0 = NoItem /\ req[1].pc = "done" /\ req[1].ncalls = 1)
  => req[1].dec = FirstOfDefaults


\* min(tokens + refill, maxTokens) of the bucket request r read, in units,
\* with the refill its limiter computes
CappedTokens(r) == Capped(req[r].lim, req[r].basis, req[r].basis.now)

\* C19: every decision of every limiter: rateLimitLimit is the sanitized
\* maxTokens, and rateLimitRemaining is floor(cappedTokens - 1) when the
\* decision is allowed and floor(cappedTokens) when it is denied
C19_RemainingByOutcome ==
  \A r \in ReqIds :
    (req[r].pc = "done" /\ req[r].dec.has)
    => /\ req[r].dec.rateLimitLimit = req[r].basis.maxTokens
       /\ req[r].dec.rateLimitRemaining =
            IF req[r].dec.allowed THEN FloorTok(CappedTokens(r) - TokScale)
            ELSE FloorTok(CappedTokens(r))


\* n = ceil(a / b) for b > 0
IsCeil(n, a, b) == n * b >= a /\ (n - 1) * b < a

\* C20: every decision of every limiter: rateLimitReset = 0 if and only if
\* rateLimitRemaining >= maxTokens; otherwise rateLimitReset =
\* ceil((maxTokens - rateLimitRemaining) * refillInterval / refillRate),
\* which is at least 1
C20_ResetFormula ==
  \A r \in ReqIds :
    (req[r].pc = "done" /\ req[r].dec.has)
    => LET dec == req[r].dec
           b == req[r].basis
       IN /\ dec.rateLimitReset = 0 <=> dec.rateLimitRemaining >= b.maxTokens
          /\ dec.rateLimitRemaining < b.maxTokens
             => /\ IsCeil(dec.rateLimitReset,
                          (b.maxTokens - dec.rateLimitRemaining) * b.refillInterval,
                          b.refillRate)
                /\ dec.rateLimitReset >= 1

\* under each of the three limiters a request on the default bucket was
\* allowed with a reset of 1 s, the refill of the one token taking less
C20_Witness ==
  \A lim \in LimiterKeys :
    \E r \in ReqIds :
      /\ req[r].lim = lim /\ req[r].pc = "done" /\ req[r].dec.has /\ req[r].dec.allowed
      /\ req[r].basis.maxTokens - req[r].dec.rateLimitRemaining = 1
      /\ req[r].basis.refillInterval < req[r].basis.refillRate
      /\ req[r].dec.rateLimitReset = 1


\* ------------------------------------------------------------ sanitization
\* Raw items: every attribute missing or not numeric, negative, zero, in
\* range, or above its cap (lastRefill: in the future)
RawItems ==
  [tokens : {NaN, 0 - TokScale, 0, TokScale, 3000 * TokScale},
   lastRefill : {NaN, 0 - 5, 0, 5000},
   refillRate : {NaN, 0 - 1, 0, 1, 3000},
   refillInterval : {NaN, 0 - 1, 0, 2},
   maxTokens : {NaN, 0 - 1, 0, 2, 3000}]

NextRaw ==
  \/ \E r \in ReqIds, p \in Procs, h \in LimiterKeys,
        a \in {"bearer"}, path \in {GoodPath} : HandlerStart(r, p, h, a, path)
  \/ \E r \in ReqIds, v \in AllVerdicts : VerifyReturn(r, v)
  \/ \E r \in ReqIds, o \in {"ok"} : AtomicGetReturn(r, o)
  \/ \E r \in ReqIds, o \in {"apply"} : AtomicUpdReturn(r, o)
  \/ \E r \in ReqIds, o \in {"ok"} : V1GetReturn(r, o)
  \/ \E r \in ReqIds, b \in {TRUE} : V1WriteLands(r, b)
  \/ \E r \in ReqIds, o \in {"ok"} : V2GetReturn(r, o)
  \/ \E r \in ReqIds, o \in {"apply"} : V2UpdReturn(r, o)
  \/ \E r \in ReqIds, o \in {"ok"} : V2RefreshReturn(r, o)

\* SpecRaw: one process, one client whose item is any raw item, each request
\* under the limiter its header selects, one request at a time, no store
\* errors, in one millisecond
InitRaw ==
  InitWith(GoodCaller([BaseEnv EXCEPT !.seq = TRUE, !.steps = {},
                                      !.maxReqs = MaxRawReqs]),
           RawItems)

SpecRaw == InitRaw /\ [][NextRaw]_vars

\* the five fields of b are within their ranges at time t
Sanitized(b, t) ==
  /\ 1 <= b.refillRate /\ b.refillRate <= hardMaxRefillRate
  /\ 1 <= b.maxTokens /\ b.maxTokens <= hardMaxTokens
  /\ b.refillInterval >= 1
  /\ 0 <= b.lastRefill /\ b.lastRefill <= t
  /\ 0 <= b.tokens /\ b.tokens <= b.maxTokens * TokScale

\* C21: for every raw stored item sanitizeItem returns 1 <= refillRate <=
\* 2500, 1 <= maxTokens <= 2500, refillInterval >= 1, 0 <= lastRefill <= now
\* and 0 <= tokens <= maxTokens; the refillRate, refillInterval and maxTokens
\* an allowed request writes back are these sanitized values, so every
\* persisted refillRate and maxTokens is within [1, 2500]
C21_SanitizedRanges ==
  /\ \A lim \in LimiterKeys : Sanitized(sanitizeItem(lim, store["c1"], now), now)
  /\ \A r \in ReqIds :
       /\ req[r].got = "ok" => Sanitized(req[r].basis, req[r].basis.now)
       /\ req[r].u.kind # "none"
          => /\ req[r].u.refillRate = req[r].basis.refillRate
             /\ req[r].u.refillInterval = req[r].basis.refillInterval
             /\ req[r].u.maxTokens = req[r].basis.maxTokens
  /\ store["c1"] # env.item0
     => /\ 1 <= store["c1"].refillRate /\ store["c1"].refillRate <= hardMaxRefillRate
        /\ 1 <= store["c1"].maxTokens /\ store["c1"].maxTokens <= hardMaxTokens
        /\ store["c1"].refillInterval >= 1

\* an item with everything above its cap was read, the request allowed, and
\* the store now holds the capped refillRate and maxTokens
C21_Witness ==
  \E r \in ReqIds :
    /\ env.item0.refillRate = 3000 /\ env.item0.maxTokens = 3000
    /\ env.item0.tokens = 3000 * TokScale /\ env.item0.lastRefill = 5000
    /\ req[r].pc = "done" /\ req[r].dec.allowed
    /\ store["c1"].refillRate = hardMaxRefillRate
    /\ store["c1"].maxTokens = hardMaxTokens
    /\ store["c1"].lastRefill = 0


\* n is a whole number of tokens
Whole(n) == n % TokScale = 0

\* C22: every tokens value a limiter writes to the store is an integer
C22_WrittenTokensWhole ==
  /\ \A r \in ReqIds : req[r].u.kind # "none" => Whole(req[r].u.newTokens)
  /\ \A c \in env.clients : store[c] # env.item0 => Whole(store[c].tokens)

\* what holds of the limiters that floor: fully-atomic and hybrid V1
C22_FlooringLimitersWhole ==
  \A r \in ReqIds :
    req[r].u.kind # "none" /\ req[r].lim \in {AtomicKey, V1Key}
    => Whole(req[r].u.newTokens)


\* request r's Get read the item the behaviour started with
ReadStart(r) ==
  /\ req[r].got = "ok" /\ ~req[r].basis.fromCache
  /\ LET b == sanitizeItem(req[r].lim, env.item0, req[r].basis.now)
     IN /\ req[r].basis.tokens = b.tokens
        /\ req[r].basis.lastRefill = b.lastRefill

\* requests r and s of different processes read the same item of one client
SameSnapshot(r, s) ==
  /\ r # s /\ req[r].proc # req[s].proc
  /\ req[r].client = req[s].client /\ req[r].lim = req[s].lim
  /\ ReadStart(r) /\ ReadStart(s)

\* C23: for one client, when two writers of different processes have read
\* the same item (the same stored lastRefill), at most one of their
\* conditional Updates succeeds
C23_OneWriterPerSnapshot ==
  \A r, s \in ReqIds :
    SameSnapshot(r, s) => ~(req[r].wrote = "ok" /\ req[s].wrote = "ok")

\* the same when the item is read after the millisecond it was written in
C23_OneWriterLaterMillisecond ==
  \A r, s \in ReqIds :
    /\ SameSnapshot(r, s)
    /\ env.item0.lastRefill # NaN
    /\ req[r].basis.now > env.item0.lastRefill
    /\ req[s].basis.now > env.item0.lastRefill
    => ~(req[r].wrote = "ok" /\ req[s].wrote = "ok")


\* ------------------------------- fully-atomic, two processes, store errors
\* SpecAtomicRace: as SpecAtomicPar, with Gets and Updates that fail or
\* whose answer is lost
InitAtomicRace ==
  InitWith(GoodCaller([BaseEnv EXCEPT !.headers = {AtomicKey}, !.procs = Procs,
                                      !.single = TRUE, !.errs = TRUE,
                                      !.maxNow = MaxTicks * TickUnit]),
           InitItems)

SpecAtomicRace == InitAtomicRace /\ [][NextAtomic]_vars

\* the fully-atomic limiter returns an allowed decision to request r in
\* this step
ReturnsAllowed(r) ==
  /\ req[r].pc # "done" /\ req'[r].pc = "done"
  /\ req'[r].lim = AtomicKey /\ req'[r].dec.has /\ req'[r].dec.allowed

V2AllowedSync(r) ==
  /\ req[r].lim = V2Key /\ req[r].pc = "upd"
  /\ req[r].dec.has /\ req[r].dec.allowed

\* C25: for an allowed V2 request the Update it issues writes tokens =
\* floor(cappedTokens - 1), the rateLimitRemaining returned, lastRefill = now
\* (the Date.now() of the sync) and the sanitized refillRate, refillInterval
\* and maxTokens
C25_V2AllowedWrite ==
  \A r \in ReqIds :
    V2AllowedSync(r)
    => /\ req[r].u.newTokens = FloorTok(CappedTokens(r) - TokScale) * TokScale
       /\ req[r].u.newTokens = req[r].dec.rateLimitRemaining * TokScale
       /\ req[r].u.currentTime = req[r].t
       /\ req[r].u.refillRate = req[r].basis.refillRate
       /\ req[r].u.refillInterval = req[r].basis.refillInterval
       /\ req[r].u.maxTokens = req[r].basis.maxTokens

\* what holds of the Update: its lastRefill and configuration
C25_V2AllowedWriteConfig ==
  \A r \in ReqIds :
    V2AllowedSync(r)
    => /\ req[r].u.currentTime = req[r].t
       /\ req[r].u.refillRate = req[r].basis.refillRate
       /\ req[r].u.refillInterval = req[r].basis.refillInterval
       /\ req[r].u.maxTokens = req[r].basis.maxTokens


\* the store answers the conditional Update of request r's V2 sync in this
\* step
V2UpdateAnswered(r) ==
  /\ req[r].lim = V2Key /\ req[r].pc = "upd"
  /\ req'[r].wrote \in {"ok", "ccf"}

\* C26: the conditional Update issued by the V2 sync succeeds exactly when
\* the stored item has no lastRefill or its lastRefill equals the lastRefill
\* of the pre-consumption snapshot the decision was computed from
C26_V2ConditionOnLastRefill ==
  [][\A r \in ReqIds :
       V2UpdateAnswered(r)
       => (req'[r].wrote = "ok"
           <=> \/ store[req[r].client].lastRefill = NaN
               \/ store[req[r].client].lastRefill = req[r].basis.lastRefill)]_vars


\* ------------------------------------------------ hybrid V2, two processes
NextV2Par ==
  \/ \E d \in {TickUnit} : Tick(d)
  \/ \E r \in ReqIds, p \in Procs, h \in {V2Key},
        a \in {"bearer"}, path \in {GoodPath} : HandlerStart(r, p, h, a, path)
  \/ \E r \in ReqIds, v \in AllVerdicts : VerifyReturn(r, v)
  \/ \E r \in ReqIds, o \in {"ok"} : V2GetReturn(r, o)
  \/ \E r \in ReqIds, o \in {"apply"} : V2UpdReturn(r, o)
  \/ \E r \in ReqIds, o \in {"ok"} : V2RefreshReturn(r, o)

\* SpecV2Par: two processes, each with its own cache, one client, the V2
\* limiter, the requests of the two processes overlapping freely, no store
\* errors
InitV2Par ==
  InitWith(GoodCaller([BaseEnv EXCEPT !.headers = {V2Key}, !.procs = Procs,
                                      !.single = TRUE,
                                      !.maxNow = MaxTicks * TickUnit]),
           InitItems)

SpecV2Par == InitV2Par /\ [][NextV2Par]_vars

\* the collision handling of request r's V2 sync ends in this step
V2CollisionHandled(r) ==
  /\ req[r].lim = V2Key /\ req[r].pc = "refresh" /\ req'[r].pc # "refresh"

\* cache entry e holds what item holds (an attribute the item lacks aside)
AgreesWith(e, item) ==
  /\ e.present
  /\ item.tokens = NaN \/ e.tokens = item.tokens
  /\ item.lastRefill = NaN \/ e.lastRefill = item.lastRefill
  /\ item.refillRate = NaN \/ e.refillRate = item.refillRate
  /\ item.refillInterval = NaN \/ e.refillInterval = item.refillInterval
  /\ item.maxTokens = NaN \/ e.maxTokens = item.maxTokens

InV2Limiter(r) == req[r].lim = V2Key /\ req[r].pc \in {"get", "upd", "refresh"}

\* how far a request is from its return
PcRank(pc) ==
  CASE pc = "get" -> 1 [] pc = "upd" -> 2 [] pc = "refresh" -> 3
    [] pc = "done" -> 4 [] OTHER -> 0

\* the first Update of request r's sync failed its condition and the sync
\* is over
V2SyncCollided(r) ==
  /\ req[r].lim = V2Key /\ req[r].pc = "done" /\ req[r].dec.has
  /\ req[r].dec.collision

V2Returned(r) == req[r].lim = V2Key /\ req[r].pc = "done" /\ req[r].dec.has

\* C29: the decision the V2 limiter returns has collision = true if and
\* only if a conditional Update issued for that request failed its
\* condition; a successful Update, a transport error on the Update and a
\* request that issues no Update leave collision = false
C29_CollisionIffConditionFailed ==
  \A r \in ReqIds :
    V2Returned(r)
    => /\ req[r].dec.collision <=> req[r].wrote = "ccf"
       /\ req[r].nupds = 0 => req[r].wrote = "none"

\* one request's Update failed its condition and its decision has
\* collision = true; another's met a transport error and its decision has
\* collision = false
C29_Witness ==
  \E r, s \in ReqIds :
    /\ V2Returned(r) /\ req[r].wrote = "ccf" /\ req[r].dec.collision
    /\ V2Returned(s) /\ req[s].wrote = "error" /\ ~req[s].dec.collision
    /\ req[s].nupds = 1


\* the V2 limiter denied request r
V2Denied(r) ==
  /\ req[r].lim = V2Key /\ req[r].dec.has /\ ~req[r].dec.allowed
  /\ req[r].pc \in {"upd", "refresh", "done"}

\* tokens were refilled since the cached lastRefill
Refilled(r) == CappedTokens(r) > req[r].basis.tokens

\* the bucket of request r refilled up to time t
RefilledCount(r, t) ==
  Min(req[r].basis.tokens
        + RefillUnits(req[r].basis.refillRate, Max(0, t - req[r].basis.lastRefill),
                      req[r].basis.refillInterval),
      req[r].basis.maxTokens * TokScale)

\* C30: a denied V2 request issues an Update only if time-based refill
\* occurred since the cached lastRefill (cappedTokens > cached tokens), and
\* then the Update persists the refilled token count; a denied request with
\* no refill issues no Update and leaves the store item as it is
C30_DeniedWritesOnlyRefill ==
  \A r \in ReqIds :
    V2Denied(r)
    => /\ req[r].nupds >= 1 <=> Refilled(r)
       /\ req[r].pc = "upd"
          => /\ req[r].u.newTokens = RefilledCount(r, req[r].t)
             /\ req[r].u.newTokens > req[r].basis.tokens
             /\ req[r].u.currentTime = req[r].t
       /\ ~Refilled(r) => req[r].wrote = "none"

\* a request was denied on a bucket that had refilled a fraction of a
\* token, its Update succeeded and the store holds the refilled count
C30_Witness ==
  \E r \in ReqIds :
    /\ V2Denied(r) /\ req[r].pc = "done" /\ Refilled(r)
    /\ req[r].nupds = 1 /\ req[r].wrote = "ok"
    /\ ~Whole(CappedTokens(r))
    /\ store[req[r].client].tokens = CappedTokens(r)
    /\ store[req[r].client].lastRefill = req[r].basis.now


\* ------------------------------------- fully-atomic and V1, one process
NextDeny ==
  \/ \E d \in {TickUnit} : Tick(d)
  \/ \E r \in ReqIds, p \in Procs, h \in {AtomicKey, V1Key},
        a \in {"bearer"}, path \in {GoodPath} : HandlerStart(r, p, h, a, path)
  \/ \E r \in ReqIds, v \in AllVerdicts : VerifyReturn(r, v)
  \/ \E r \in ReqIds, o \in {"ok"} : AtomicGetReturn(r, o)
  \/ \E r \in ReqIds, o \in {"apply"} : AtomicUpdReturn(r, o)
  \/ \E r \in ReqIds, o \in {"ok"} : V1GetReturn(r, o)
  \/ \E r \in ReqIds, b \in {TRUE} : V1WriteLands(r, b)

\* SpecDeny: one process, one client, the fully-atomic or the V1 limiter by
\* header, one request at a time (the write of a V1 request may still be in
\* flight), no store errors
InitDeny ==
  InitWith(GoodCaller([BaseEnv EXCEPT !.headers = {AtomicKey, V1Key}, !.seq = TRUE,
                                      !.maxReqs = MaxSeqReqs,
                                      !.maxNow = MaxTicks * TickUnit]),
           InitItems)

SpecDeny == InitDeny /\ [][NextDeny]_vars

\* the fully-atomic or the V1 limiter returns a deny to request r in this
\* step: no whole token in the bucket (a collision of the fully-atomic
\* limiter is not a deny of the bucket)
ReturnsDeny(r) ==
  /\ req[r].pc # "done" /\ req'[r].pc = "done"
  /\ req'[r].lim \in {AtomicKey, V1Key}
  /\ req'[r].dec.has /\ ~req'[r].dec.allowed /\ ~req'[r].dec.collision

C32_HybridNeverAwaitsWrite ==
  \A r \in ReqIds :
    req[r].lim \in {V1Key, V2Key} => req[r].pc \notin {"upd", "refresh"}

\* what holds of V1: its requests never await the write
C32_V1NeverAwaitsWrite ==
  \A r \in ReqIds : req[r].lim = V1Key => req[r].pc \notin {"upd", "refresh"}

\* what holds of V2: a decision is returned only once the Update issued for
\* the request has been answered
C32_V2ReturnsAfterWrite ==
  \A r \in ReqIds :
    (req[r].lim = V2Key /\ req[r].pc = "done" /\ req[r].nupds >= 1)
    => req[r].wrote # "none"


\* --------------------------------------- hybrid limiters, staleness window
NextStale ==
  \/ \E d \in {StaleMs, TickUnit} : Tick(d)
  \/ \E r \in ReqIds, p \in Procs, h \in {V1Key, V2Key},
        a \in {"bearer"}, path \in {GoodPath} : HandlerStart(r, p, h, a, path)
  \/ \E r \in ReqIds, v \in AllVerdicts : VerifyReturn(r, v)
  \/ \E r \in ReqIds, o \in {"ok"} : V1GetReturn(r, o)
  \/ \E r \in ReqIds, b \in {TRUE} : V1WriteLands(r, b)
  \/ \E r \in ReqIds, o \in {"ok"} : V2GetReturn(r, o)
  \/ \E r \in ReqIds, o \in {"apply"} : V2UpdReturn(r, o)
  \/ \E r \in ReqIds, o \in {"ok"} : V2RefreshReturn(r, o)

\* SpecStale: one process, one client, hybrid V1 or V2 by header, one
\* request at a time, no store errors, the clock advancing by exactly the
\* staleness window or by one millisecond more
InitStale ==
  InitWith(GoodCaller([BaseEnv EXCEPT !.headers = {V1Key, V2Key}, !.seq = TRUE,
                                      !.maxReqs = MaxSeqReqs,
                                      !.steps = {StaleMs, TickUnit},
                                      !.maxNow = MaxSeqTicks * TickUnit]),
           InitItems)

SpecStale == InitStale /\ [][NextStale]_vars

\* request r calls the applyRateLimit of a hybrid limiter in this step
CallsHybrid(r) ==
  /\ req[r].ncalls = 0 /\ req'[r].ncalls = 1
  /\ req'[r].lim \in {V1Key, V2Key}

\* the cache entry that call finds
EntryFound(r) ==
  IF req'[r].lim = V1Key THEN cacheV1[req'[r].proc][req'[r].client]
  ELSE cacheV2[req'[r].proc][req'[r].client]

\* the call awaits a GetItem exactly when there is no entry or the entry's
\* lastAccess is more than 1000 ms ago; otherwise it decides from the entry
GetIffStale(r) ==
  LET e == EntryFound(r)
      stale == ~e.present \/ now - e.lastAccess > StaleMs
  IN /\ req'[r].pc = "get" <=> stale
     /\ req'[r].pc = "get" => req'[r].ngets = 1
     /\ req'[r].pc # "get"
        => /\ req'[r].ngets = 0 /\ req'[r].basis.fromCache
           /\ req'[r].basis.tokens = e.tokens
           /\ req'[r].basis.lastRefill = e.lastRefill
           /\ req'[r].basis.now = now

\* the call is allowed from the cache with less than one token refilled,
\* and the call before it was an allowed call of the same limiter
AllowedAfterAllowed(r) ==
  LET e == EntryFound(r)
  IN /\ r > 1 /\ req'[r].pc # "get" /\ req'[r].dec.allowed
     /\ RefillUnits(e.refillRate, Max(0, now - e.lastRefill), e.refillInterval) < TokScale
     /\ req[r - 1].lim = req'[r].lim /\ req[r - 1].pc = "done"
     /\ req[r - 1].dec.has /\ req[r - 1].dec.allowed

OneLower(r) ==
  req'[r].dec.rateLimitRemaining = req[r - 1].dec.rateLimitRemaining - 1

\* C33: in the hybrid limiters a call performs a Get on the hot path exactly
\* when the client has no cache entry or now - lastAccess > 1000 ms; a call
\* made at most 1000 ms after the entry's lastAccess performs no Get,
\* decides from the cache and, when allowed with no whole token refilled,
\* reports a rateLimitRemaining one lower than the previous allowed call
C33_GetIffStaleAndCountsDown ==
  [][\A r \in ReqIds :
       CallsHybrid(r)
       => /\ GetIffStale(r)
          /\ AllowedAfterAllowed(r) => OneLower(r)]_vars

\* what holds of both hybrid limiters: the Get and the decision from the
\* cache
C33_GetIffStale ==
  [][\A r \in ReqIds : CallsHybrid(r) => GetIffStale(r)]_vars

\* what holds of V1: the count one lower
C33_V1CountsDown ==
  [][\A r \in ReqIds :
       CallsHybrid(r) /\ req'[r].lim = V1Key /\ AllowedAfterAllowed(r)
       => OneLower(r)]_vars


\* --------------------------- hybrid limiters, age of the cached bucket
\* SpecLoad: SpecStale with every cache entry remembering when it was
\* loaded from the store
InitLoad ==
  InitWith(GoodCaller([BaseEnv EXCEPT !.headers = {V1Key, V2Key}, !.seq = TRUE,
                                      !.maxReqs = MaxSeqReqs, !.track = TRUE,
                                      !.steps = {StaleMs, TickUnit},
                                      !.maxNow = MaxSeqTicks * TickUnit]),
           InitItems)

SpecLoad == InitLoad /\ [][NextStale]_vars

\* the call of request r decides from the cache entry, without a Get
DecidesFromCache(r) == CallsHybrid(r) /\ req'[r].pc # "get"

\* C34: in the hybrid limiters, whenever a call decides without performing a
\* Get, the client's cache entry was last loaded from the remote store at
\* most 1000 ms earlier
C34_CacheLoadedWithinWindow ==
  [][\A r \in ReqIds :
       DecidesFromCache(r) => now - EntryFound(r).loaded <= StaleMs]_vars

\* what the code guarantees: such a call finds an entry whose lastAccess,
\* which every allowed call moves to its own time, is at most 1000 ms ago
C34_CacheAccessedWithinWindow ==
  [][\A r \in ReqIds :
       DecidesFromCache(r) => now - EntryFound(r).lastAccess <= StaleMs]_vars


\* ------------------------------ applyRateLimitWithRetry and the handler
NextRetry ==
  \/ \E d \in {defaultBaseBackoffMs} : Tick(d)
  \/ \E r \in ReqIds, p \in Procs, h \in {AtomicKey},
        a \in {"bearer"}, path \in {GoodPath} : HandlerStart(r, p, h, a, path)
  \/ \E r \in ReqIds, v \in AllVerdicts : VerifyReturn(r, v)
  \/ \E r \in ReqIds, p \in Procs, c \in Clients, m \in 0..defaultMaxRetries :
       RetryStart(r, p, c, m)
  \/ \E r \in ReqIds : BackoffReturn(r)
  \/ \E r \in ReqIds, o \in {"ok", "error"} : AtomicGetReturn(r, o)
  \/ \E r \in ReqIds, o \in {"apply", "error"} : AtomicUpdReturn(r, o)

\* SpecRetry: one client's item under the fully-atomic limiter, called by
\* applyRateLimitWithRetry with maxRetries 0 to 3 in one process (the first
\* request, if it is not the handler's) and by the handler in another, each
\* process running one call at a time, with store errors; the clock advances
\* by the base backoff
InitRetry ==
  InitWith(GoodCaller([BaseEnv EXCEPT !.headers = {AtomicKey}, !.maxReqs = MaxBurst,
                                      !.procs = {"p2"}, !.retryProcs = {"p1"}, !.keep = FALSE,
                                      !.errs = TRUE,
                                      !.retryReqs = {1},
                                      !.single = TRUE,
                                      !.maxRetries = 0..defaultMaxRetries,
                                      !.steps = {defaultBaseBackoffMs},
                                      !.maxNow = (defaultMaxRetries + 1) * defaultBaseBackoffMs]),
           {Item(defaultMaxRetries + 1, 0, 1, 1, defaultMaxRetries + 1)})

SpecRetry == InitRetry /\ [][NextRetry]_vars


\* request r is a call of applyRateLimitWithRetry
ViaRetry(r) == req[r].via = "retry" /\ req[r].pc # "idle"

\* how far a call of applyRateLimitWithRetry is: its attempts, then its
\* place in the attempt; above every other value once it has returned
RetryRank(q) ==
  IF q.pc = "done" THEN 4 * (Max(q.maxRetries, 0) + 1)
  ELSE 4 * q.ncalls + (CASE q.pc = "get" -> 1 [] q.pc = "upd" -> 2
                         [] q.pc = "backoff" -> 3 [] OTHER -> 0)

\* the attempts and the result of applyRateLimitWithRetry
RetryBounded(r) ==
  LET q == req[r]
  IN /\ q.ncalls <= q.maxRetries
     /\ q.pc = "backoff" => q.dec.collision /\ q.ncalls < q.maxRetries
     /\ q.pc \in {"get", "upd"} /\ q.ncalls > 1 => q.ncalls = q.ngets
     /\ q.pc = "done" /\ ~q.threw /\ q.maxRetries > 0 =>
          /\ q.dec.has
          /\ q.dec.collision => q.ncalls = q.maxRetries /\ ~q.dec.allowed
     /\ q.pc = "done" => RetryRank(q) >= 4 * q.ncalls + 3

\* C35: applyRateLimitWithRetry calls the fully-atomic applyRateLimit at most
\* maxRetries times, returns the first result that is no collision without
\* another attempt, returns the last result (allowed = false, collision =
\* true) after maxRetries collisions, and every step of it brings it closer
\* to its return; the handler calls the selected limiter at most once per
\* request
C35_RetryBoundedHandlerOnce ==
  /\ [](\A r \in ReqIds : IF ViaRetry(r) THEN RetryBounded(r) ELSE req[r].ncalls <= 1)
  /\ [][\A r \in ReqIds :
          ViaRetry(r) /\ req'[r] # req[r] =>
            /\ RetryRank(req'[r]) > RetryRank(req[r])
            /\ req'[r].ncalls = req[r].ncalls
                 \/ (req[r].pc = "backoff" /\ req[r].dec.collision
                       /\ req'[r].ncalls = req[r].ncalls + 1)]_vars

\* a call with the default maxRetries has collided three times and returned
C35_Witness ==
  \E r \in ReqIds :
    /\ ViaRetry(r) /\ req[r].pc = "done" /\ req[r].maxRetries = defaultMaxRetries
    /\ req[r].ncalls = defaultMaxRetries
    /\ req[r].dec.collision /\ ~req[r].dec.allowed


\* ------------------------------ one process, no other writer: collisions
NextSolo ==
  \/ \E d \in {TickUnit} : Tick(d)
  \/ \E r \in ReqIds, p \in Procs, h \in {AtomicKey, V2Key},
        a \in {"bearer"}, path \in {GoodPath} : HandlerStart(r, p, h, a, path)
  \/ \E r \in ReqIds, v \in AllVerdicts : VerifyReturn(r, v)
  \/ \E r \in ReqIds, o \in {"ok"} : AtomicGetReturn(r, o)
  \/ \E r \in ReqIds, o \in {"apply"} : AtomicUpdReturn(r, o)
  \/ \E r \in ReqIds, o \in {"ok"} : V2GetReturn(r, o)
  \/ \E r \in ReqIds, o \in {"apply"} : V2UpdReturn(r, o)
  \/ \E r \in ReqIds, o \in {"ok"} : V2RefreshReturn(r, o)

\* SpecSolo: one process, one client, one request at a time, every request
\* under the same limiter (the fully-atomic one or V2), no store errors:
\* the item has no other writer
InitSolo ==
  \E h \in {AtomicKey, V2Key} :
    InitWith(GoodCaller([BaseEnv EXCEPT !.headers = {h}, !.seq = TRUE,
                                        !.maxReqs = MaxSeqReqs]),
             InitItems)

SpecSolo == InitSolo /\ [][NextSolo]_vars

\* the conditional Update of request r failed its condition, or r's result
\* reports a collision
Collided(r) == req[r].wrote = "ccf" \/ (req[r].dec.has /\ req[r].dec.collision)

\* C36: with a single process and no other writer to the store, no
\* conditional Update of the fully-atomic limiter or of the V2 limiter fails
\* its condition, and no result reports collision = true
C36_NoSelfCollision ==
  \A r \in ReqIds : req[r].lim \in {AtomicKey, V2Key} => ~Collided(r)

\* the same of the fully-atomic limiter alone
C36_AtomicNoSelfCollision ==
  \A r \in ReqIds : req[r].lim = AtomicKey => ~Collided(r)


\* ----------------------------------------------- the stored lastRefill
\* the store holds an item of client c with a lastRefill
HasLastRefill(c) == store[c].lastRefill # NaN

\* C37: for each client, the lastRefill held in the store never decreases,
\* whatever the interleaving of the writes in flight
C37_LastRefillNeverDecreases ==
  [][\A c \in Clients :
       HasLastRefill(c) => store'[c].lastRefill >= store[c].lastRefill]_vars


\* ------------------------------------------------- two clients, frame
NextFrame ==
  \/ \E d \in {TickUnit} : Tick(d)
  \/ \E r \in ReqIds, p \in Procs, h \in LimiterKeys,
        a \in {"bearer"}, path \in {GoodPath} : HandlerStart(r, p, h, a, path)
  \/ \E r \in ReqIds, c \in Clients : VerifyReturn(r, Claims(c, <<"tariff/read">>))
  \/ \E r \in ReqIds, o \in {"ok"} : AtomicGetReturn(r, o)
  \/ \E r \in ReqIds, o \in {"apply"} : AtomicUpdReturn(r, o)
  \/ \E r \in ReqIds, o \in {"ok"} : V1GetReturn(r, o)
  \/ \E r \in ReqIds, b \in {TRUE} : V1WriteLands(r, b)
  \/ \E r \in ReqIds, o \in {"ok"} : V2GetReturn(r, o)
  \/ \E r \in ReqIds, o \in {"apply"} : V2UpdReturn(r, o)
  \/ \E r \in ReqIds, o \in {"ok"} : V2RefreshReturn(r, o)

\* SpecFrame: two clients, two processes, one invocation at a time, the
\* three limiters chosen by header, no store errors; the writes in flight
\* overlap the later invocations
InitFrame ==
  InitWith([GoodCaller(BaseEnv) EXCEPT
              !.procs = Procs, !.clients = Clients, !.seq = TRUE,
              !.verdicts = {Claims(c, <<"tariff/read">>) : c \in Clients},
              !.maxNow = MaxTicks * TickUnit],
           {NoItem, Item(1, 0, 1, 1, 2)})

SpecFrame == InitFrame /\ [][NextFrame]_vars

\* the step is one of request r, a limiter call for client c in process p
StepOf(r, p, c) ==
  /\ req'[r] # req[r]
  /\ c \in {req[r].client, req'[r].client}
  /\ p \in {req[r].proc, req'[r].proc}

\* C38: a call of any limiter for client A changes only the cache entry (of
\* its process) and the store item keyed by A, its background write and
\* its collision handling included: every store item and every cache entry
\* that a step changes belongs to the client of the request that takes it
C38_OnlyOwnClient ==
  [][/\ \A c \in Clients :
          store'[c] # store[c] => \E r \in ReqIds, p \in Procs : StepOf(r, p, c)
     /\ \A c \in Clients, p \in Procs :
          cacheV1'[p][c] # cacheV1[p][c] \/ cacheV2'[p][c] # cacheV2[p][c]
            => \E r \in ReqIds : StepOf(r, p, c)
     /\ \A r, s \in ReqIds : req'[r] # req[r] /\ req'[s] # req[s] => r = s]_vars

\* both clients have been served by a hybrid limiter in the same process,
\* one of them after a collision, and their store items and cache entries
\* differ
C38_Witness ==
  \E p \in Procs :
    /\ store["c1"] # store["c2"]
    /\ cacheV2[p]["c1"].present /\ cacheV2[p]["c2"].present
    /\ cacheV2[p]["c1"] # cacheV2[p]["c2"]
    /\ \E r \in ReqIds : req[r].pc = "done" /\ req[r].dec.has /\ req[r].dec.collision


\* ------------------------------------------- the forwarded x-client-id
NextClientId ==
  \/ \E d \in {TickUnit} : Tick(d)
  \/ \E r \in ReqIds, p \in Procs, h \in {"absent"},
        a \in {"none", "basic", "bearer"}, path \in {GoodPath} :
       HandlerStart(r, p, h, a, path)
  \/ \E r \in ReqIds, v \in AllVerdicts : VerifyReturn(r, v)
  \/ \E r \in ReqIds, o \in {"ok", "error"} : V2GetReturn(r, o)
  \/ \E r \in ReqIds, o \in {"apply", "error"} : V2UpdReturn(r, o)
  \/ \E r \in ReqIds, o \in {"ok", "error"} : V2RefreshReturn(r, o)

\* SpecClientId: one process, one request at a time, every kind of caller
\* and of verifier answer, the default limiter, store errors; a request
\* arrives without x-client-id or with x-client-id: c2
InitClientId ==
  InitWith([BaseEnv EXCEPT !.headers = {"absent"}, !.paths = {GoodPath},
                           !.errs = TRUE, !.seq = TRUE, !.maxReqs = MaxOrchReqs,
                           !.inClientIds = {NoClient, "c2"},
                           !.maxNow = MaxTicks * TickUnit],
           {Item(2, 0, 1, 1, 2)})

SpecClientId == InitClientId /\ [][NextClientId]_vars

\* the handler forwarded request r to the origin
Forwarded(r) == req[r].pc = "done" /\ req[r].out.kind = "forward"

\* requests r and s differ at most in the x-client-id they arrived with, and
\* their limiter calls returned the same
SameButClientId(r, s) ==
  /\ req[r].pc = "done" /\ req[s].pc = "done"
  /\ req[r].auth = req[s].auth /\ req[r].header = req[s].header
  /\ req[r].path = req[s].path /\ req[r].inCollision = req[s].inCollision
  /\ req[r].payload = req[s].payload
  /\ req[r].dec = req[s].dec /\ req[r].threw = req[s].threw

\* C39: on every forwarded request x-client-id is "unknown" (no
\* authorization header) or the client_id of the verified token, and two
\* requests that differ only in the x-client-id they arrived with get the
\* same output
C39_ClientIdFromTokenOnly ==
  /\ \A r \in ReqIds :
       Forwarded(r) =>
         req[r].out.clientId =
           (IF req[r].auth = "none" THEN "unknown" ELSE req[r].payload.client_id)
  /\ \A r \in ReqIds :
       Forwarded(r) /\ req[r].auth # "none" =>
         req[r].payload.ok /\ req[r].payload.client_id # NoClient
  /\ \A r, s \in ReqIds : SameButClientId(r, s) => req[r].out = req[s].out

\* a request with a valid token of client c1 that arrived with
\* x-client-id: c2 was forwarded with x-client-id c1, and so was its twin
\* that arrived without the header
C39_Witness ==
  \E r, s \in ReqIds :
    /\ r # s /\ Forwarded(r) /\ Forwarded(s) /\ SameButClientId(r, s)
    /\ req[r].inClientId = "c2" /\ req[s].inClientId = NoClient
    /\ req[r].auth = "bearer" /\ req[r].out.clientId = "c1"


\* ------------------------------------------------ the handler's callback
\* SpecCallback: one process, one request at a time, every kind of caller
\* and of verifier answer, x-rate-limiter naming one of the three limiters
\* or an inherited property, store errors and timeouts
InitCallback ==
  InitWith([BaseEnv EXCEPT !.headers = LimiterKeys \cup {"constructor"},
                           !.paths = {GoodPath}, !.keep = TRUE,
                           !.errs = TRUE, !.seq = TRUE, !.maxReqs = MaxOrchReqs,
                           !.maxNow = MaxTicks * TickUnit],
           {Item(n, 0, 1, 1, 2) : n \in 0..1})

SpecCallback == InitCallback /\ [][Next]_vars

\* what the callback may be given: the request, or a 401, 403 or 429 response
CallbackKinds == {"forward", "401", "403", "429"}

\* how far the handler is with a request
HandlerRank(pc) ==
  CASE pc = "verify" -> 1 [] pc = "get" -> 2 [] pc = "upd" -> 3
    [] pc = "refresh" -> 4 [] pc = "done" -> 5 [] OTHER -> 0

\* C40: for every request and every outcome of the verifier and of the
\* selected limiter, thrown errors included, the handler calls the callback
\* exactly once, with the forwarded request or a 401, 403 or 429 response:
\* every step of the handler brings it closer to its end, the callback is
\* called in the step that ends it and in no other
C40_CallbackExactlyOnce ==
  /\ [](\A r \in ReqIds :
          /\ req[r].pc = "done" =>
               req[r].ncallbacks = 1 /\ req[r].out.kind \in CallbackKinds
          /\ req[r].pc # "done" =>
               req[r].ncallbacks = 0 /\ req[r].out.kind = "none")
  /\ [][\A r \in ReqIds :
          req'[r].pc # req[r].pc => HandlerRank(req'[r].pc) > HandlerRank(req[r].pc)]_vars

\* the limiter threw after its Update and the callback was given a 401
C40_Witness ==
  \E r \in ReqIds :
    /\ req[r].pc = "done" /\ req[r].threw /\ req[r].nupds = 1
    /\ req[r].ncallbacks = 1 /\ req[r].out.kind = "401"

====
